---- MODULE Spec2Model ----
(***************************************************************************)
(* Coherence (Blender addon): the scene synchronisation runtime.           *)
(*                                                                         *)
(* The model follows core/runtime.py (Runtime), core/scene.py (SceneObject *)
(* and SceneObjectCollection) and core/plugin.py (BaseGlobalPlugin), with   *)
(* plugins/mesh.py as the built-in plugin.  One action is one handler or    *)
(* API call, run to completion (the addon is single threaded).  A Python    *)
(* exception is the field exc of the machine record: once it is set, the    *)
(* remaining statements of the handler are skipped, as in the source,      *)
(* which has no try/except on these paths.                                  *)
(***************************************************************************)
EXTENDS Integers, Sequences, FiniteSets, TLC

VARIABLES
    scene,                \* bpy.context.scene.objects: host name -> attributes
    libConnected,         \* lib.IsConnectedToUnity()
    libSharedMemory,      \* lib.IsConnectedToSharedMemory()
    running,              \* Runtime.running
    plugins,              \* Runtime.plugins: plugin class -> [enabled, _objects]
    plugin_order,         \* insertion order of Runtime.plugins (dict order)
    objects,              \* Runtime.objects (a SceneObjectCollection)
    current_names,        \* Runtime.current_names
    invalidated_objects,  \* Runtime.invalidated_objects
    handlers,             \* times on_depsgraph_update sits in depsgraph_update_post
    timers,               \* bpy.app.timers: registrations of each callback
    scene_objects,        \* the SceneObjects plugin and its component instances
    objs,                 \* the SceneObject instances: id -> fields
    calls,                \* interop calls and callbacks of the last operation
    lastOp                \* the last operation, its arguments and outcome

vars == <<scene, libConnected, libSharedMemory, running, plugins, plugin_order, objects,
          current_names, invalidated_objects, handlers, timers,
          scene_objects, objs, calls, lastOp>>

(***************************************************************************)
(* Names are strings, modelled as sequences of characters so that the      *)
(* formatting of mesh_uid is a real concatenation.  None and the empty      *)
(* string are both <<>>: the source tests them with `if bpy_name`.          *)
(***************************************************************************)
None == <<>>

HostNames == { <<"a">>, <<"a", "_">>, <<"c">> }

MeshNames == { <<"m">>, <<"_", "m">> }



\* bound: SceneObject instances alive at once
MaxObjs == 2


EmptyFn == [k \in {} |-> 0]

Put(f, k, v) == [x \in (DOMAIN f) \cup {k} |-> IF x = k THEN v ELSE f[x]]

Del(f, k) == [x \in (DOMAIN f) \ {k} |-> f[x]]

(***************************************************************************)
(* SceneObjectCollection (core/scene.py 330-423)                           *)
(***************************************************************************)
EmptyCollection == [_objects |-> EmptyFn, _objects_by_bpy_name |-> EmptyFn]

\* find(name): the id stored under the name, or 0 for None
Find(c, name) == IF name \in DOMAIN c._objects THEN c._objects[name] ELSE 0

FindByBpyName(c, bpy_name) ==
    IF bpy_name \in DOMAIN c._objects_by_bpy_name
    THEN c._objects_by_bpy_name[bpy_name] ELSE 0

\* the two `raise` conditions of append()
AppendRaises(c, o, heap) ==
    \/ heap[o].name \in DOMAIN c._objects
    \/ /\ heap[o].bpy_name # None
       /\ heap[o].bpy_name \in DOMAIN c._objects_by_bpy_name

\* a collection that overwrites instead of raising
CollAppend_Overwrite(c, o, heap) ==
    [ raised |-> FALSE,
      c |-> [ _objects |-> Put(c._objects, heap[o].name, o),
              _objects_by_bpy_name |->
                  IF heap[o].bpy_name # None
                  THEN Put(c._objects_by_bpy_name, heap[o].bpy_name, o)
                  ELSE c._objects_by_bpy_name ] ]

\* append(obj): [raised, c]
CollAppend(c, o, heap) ==
    IF AppendRaises(c, o, heap)
    THEN [raised |-> TRUE, c |-> c]
    ELSE [ raised |-> FALSE,
           c |-> [ _objects |-> Put(c._objects, heap[o].name, o),
                   _objects_by_bpy_name |->
                       IF heap[o].bpy_name # None
                       THEN Put(c._objects_by_bpy_name, heap[o].bpy_name, o)
                       ELSE c._objects_by_bpy_name ] ]

\* remove(obj): both deletions are by key, whatever object the key holds
CollRemove(c, o, heap) ==
    [ _objects |->
          IF heap[o].name \in DOMAIN c._objects
          THEN Del(c._objects, heap[o].name) ELSE c._objects,
      _objects_by_bpy_name |->
          IF heap[o].bpy_name # None
             /\ heap[o].bpy_name \in DOMAIN c._objects_by_bpy_name
          THEN Del(c._objects_by_bpy_name, heap[o].bpy_name)
          ELSE c._objects_by_bpy_name ]

\* clear()
CollClear(c) == EmptyCollection

\* values(): the objects stored under a logical name
CollValues(c) == { c._objects[n] : n \in DOMAIN c._objects }

(***************************************************************************)
(* The host scene (bpy).  Every host object is of type 'MESH'; it has a    *)
(* mesh datablock name, a flag for a non-empty modifier stack, an optional *)
(* parent and the names in its coherence.components (none when created).   *)
(***************************************************************************)
HostAttrs ==
    [data : MeshNames, mods : BOOLEAN, parent : HostNames \cup {None},
     components : {{}}]

\* a bpy_obj.children that is always empty
Children_Empty(n) == {}

\* bpy_obj.children: the host objects parented to n
Children(n) == { ch \in DOMAIN scene : scene[ch].parent = n }

(***************************************************************************)
(* The machine record threaded through a handler: the Runtime singleton,   *)
(* the plugin instances, the SceneObject heap, the interop calls made so   *)
(* far and the pending exception.                                          *)
(***************************************************************************)
MachineOf(max_objs) ==
    [ max_objs |-> max_objs, libConnected |-> libConnected,
      libSharedMemory |-> libSharedMemory, ret |-> "",
      running |-> running, plugins |-> plugins,
      plugin_order |-> plugin_order, objects |-> objects,
      current_names |-> current_names,
      invalidated_objects |-> invalidated_objects,
      handlers |-> handlers, timers |-> timers,
      current_depsgraph |-> "unassigned", objs |-> objs,
      calls |-> <<>>,
      exc |-> "none", geometry_updates |-> <<>>, failing |-> {} ]

Machine == MachineOf(MaxObjs)

\* one interop call or callback: its name, the plugin class it is made on
\* ("" if none), its string argument and the SceneObject it concerns (0 if none)
Ev(call, plugin, arg, id) ==
    [call |-> call, plugin |-> plugin, arg |-> arg, id |-> id]

Log(m, call, arg, id) ==
    [m EXCEPT !.calls = Append(@, Ev(call, "", arg, id))]

PLog(m, call, p, arg) ==
    [m EXCEPT !.calls = Append(@, Ev(call, p, arg, 0))]

Raise(m, e) == [m EXCEPT !.exc = e]

Ok(m) == m.exc = "none"

\* the value of a singleton set.  The statements of a handler run one
\* after another, each on the state the one before left:
\* Val({ S2(x) : x \in {S1(m)} }) is S1 followed by S2, and a statement
\* that an exception raised before it skips reads IF Ok(x) THEN .. ELSE x
Val(S) == CHOOSE r \in S : TRUE

(***************************************************************************)
(* SceneObject (core/scene.py 17-328)                                      *)
(***************************************************************************)
\* SceneObject subclasses handed to instantiate(): plugins/mesh.py's Mesh
\* (`class Mesh(SceneObject): pass`) and a third-party subclass that
\* overrides the properties kind and mat_uid

\* bound: on_destroy calls counted per object (the count saturates)
MaxDestroys == 2

\* SceneObject.__init__; destroys counts the on_destroy callbacks, added
\* and removes are what the library was told about the object
\* (AddObjectToScene, RemoveObjectFromScene)
NewObject(name, bpy_name, plugin, type) ==
    [ name |-> name, bpy_name |-> bpy_name, plugin |-> plugin,
      valid |-> TRUE, type |-> type, destroys |-> 0,
      added |-> FALSE, removes |-> 0 ]

\* uid property
Uid(m, o) == m.objs[o].name

\* bpy_obj property raises KeyError when bpy.data.objects has no such name
BpyObjRaises(m, o) ==
    m.objs[o].bpy_name # None /\ m.objs[o].bpy_name \notin DOMAIN scene

\* bpy_obj property is None
BpyObjNone(m, o) == m.objs[o].bpy_name = None


\* '{}__{}'.format(self.name, bpy_obj.data.name)
FormatMeshUid(name, data) == name \o <<"_", "_">> \o data

\* mesh_uid property (bpy_obj is known to resolve)
MeshUid(m, o) ==
    IF BpyObjNone(m, o) THEN None
    ELSE LET b == scene[m.objs[o].bpy_name]
         IN  IF ~b.mods THEN b.data
             ELSE FormatMeshUid(m.objs[o].name, b.data)

\* the try block of update_mesh raises: the mesh that the object evaluates
\* to is empty (mesh.loops[0] is an IndexError) when its mesh data is one
\* of m.failing, the meshes that are empty when the handler runs
EvaluationFails(m, o) == scene[m.objs[o].bpy_name].data \in m.failing

\* an update_mesh() without its try/except
UpdateMesh_NoTry(m, o) ==
    IF BpyObjRaises(m, o) THEN Raise(m, "KeyError")
    ELSE IF MeshUid(m, o) = None THEN m
    ELSE IF EvaluationFails(m, o) THEN Raise(m, "IndexError")
    ELSE Log(m, "CopyMeshDataNative", MeshUid(m, o), o)

\* update_mesh(depsgraph): the mesh is pushed, or the exception of its
\* evaluation is logged with error()
UpdateMesh(m, o) ==
    IF BpyObjRaises(m, o) THEN Raise(m, "KeyError")
    ELSE IF MeshUid(m, o) = None THEN m
    ELSE IF EvaluationFails(m, o) THEN Log(m, "error", MeshUid(m, o), o)
    ELSE Log(m, "CopyMeshDataNative", MeshUid(m, o), o)

\* update_transform()
UpdateTransform(m, o) ==
    IF BpyObjRaises(m, o) THEN Raise(m, "KeyError")
    ELSE IF BpyObjNone(m, o) THEN m
    ELSE Log(m, "SetObjectTransform", Uid(m, o), o)

\* update_properties(); the mat_uid property of the class Mesh inherits
\* reads the unbound name `mat` once bpy_obj is set
UpdateProperties(m, o) ==
    IF BpyObjRaises(m, o) THEN Raise(m, "KeyError")
    ELSE IF BpyObjNone(m, o) THEN m
    ELSE IF m.objs[o].type = "Mesh" THEN Raise(m, "NameError")
    ELSE Log(m, "UpdateObjectProperties", Uid(m, o), o)

Min(a, b) == IF a < b THEN a ELSE b

\* destroy()
Destroy(m, o) ==
    LET m1 == [m EXCEPT !.objs[o].valid = FALSE,
                        !.objs[o].destroys = Min(@ + 1, MaxDestroys),
                        !.objs[o].removes = Min(@ + 1, MaxDestroys),
                        !.invalidated_objects = @ \cup {o}]
    IN  Log(Log(m1, "RemoveObjectFromScene", Uid(m, o), o),
            "on_destroy", Uid(m, o), o)


(***************************************************************************)
(* Iteration: Python iterates a dict in insertion order and a set in hash  *)
(* order; the model visits ids and names in one fixed order.  The order of *)
(* scene.objects, which decides where an exception cuts the loop, is an    *)
(* input of the handler.                                                   *)
(***************************************************************************)
MinOf(S) == CHOOSE x \in S : \A y \in S : x <= y

\* names are ordered by length, then by the position of their text below
NameRank(n) ==
    CHOOSE i \in 1..5 :
        <<None, <<"a">>, <<"a", "_">>, <<"c">>, <<"x">>>>[i] = n

FirstName(S) == CHOOSE x \in S : \A y \in S : NameRank(x) <= NameRank(y)

\* all orderings of a finite set, as sequences
Perms(S) ==
    { q \in [1..Cardinality(S) -> S] : \A i, j \in 1..Cardinality(S) :
                                           q[i] = q[j] => i = j }

\* the id the next SceneObject instance gets, 0 when MaxObjs are alive
FreeId(m) ==
    IF (1..m.max_objs) \ DOMAIN m.objs = {} THEN 0
    ELSE MinOf((1..m.max_objs) \ DOMAIN m.objs)

(***************************************************************************)
(* Runtime.add_object (core/runtime.py 552-590)                            *)
(***************************************************************************)
RECURSIVE UpdateChildren(_, _)
\* for child in bpy_obj.children: child_obj.update_transform()
UpdateChildren(m, S) ==
    IF S = {} THEN m
    ELSE UpdateChildren(
             Val({ LET child_obj == FindByBpyName(x.objects, FirstName(S))
                   IN  IF Ok(x) /\ child_obj # 0
                       THEN UpdateTransform(x, child_obj) ELSE x
                   : x \in {m} }),
             S \ {FirstName(S)})

\* add_object(obj); the kind property that the class Mesh inherits reads
\* `self.__name__`, which is no attribute of an instance
AddObject(m, o) ==
    Val({ IF Ok(m4) THEN UpdateMesh(m4, o) ELSE m4 : m4 \in {
    Val({ IF Ok(m3) THEN UpdateProperties(m3, o) ELSE m3 : m3 \in {
    Val({ IF ~Ok(m2) \/ BpyObjNone(m2, o) THEN m2
          ELSE UpdateChildren(m2, Children(m2.objs[o].bpy_name)) : m2 \in {
    Val({ IF ~Ok(m1) THEN m1
          ELSE IF BpyObjRaises(m1, o) THEN Raise(m1, "KeyError")
          ELSE IF m1.objs[o].type = "Mesh" THEN Raise(m1, "AttributeError")
          ELSE Log([m1 EXCEPT !.objs[o].added = TRUE],
                   "AddObjectToScene", Uid(m1, o), o) : m1 \in {
    Val({ IF r.raised THEN Raise(m, "Exception")
          ELSE [m EXCEPT !.objects = r.c] :
          r \in {CollAppend(m.objects, o, m.objs)} })
    } }) } }) } }) } })

(***************************************************************************)
(* BaseGlobalPlugin (core/plugin.py 509-648) and plugins/mesh.py           *)
(***************************************************************************)
\* the plugin classes: plugins/mesh.py's MeshPlugin and a third-party
\* plugin that keeps the base callbacks and defines the two
\* on_*_unity callbacks the Runtime calls
PluginClasses == {"MeshPlugin", "CustomPlugin"}


\* BaseGlobalPlugin.__init__
\* (enabled is not assigned before the first enable() or disable())
NewPlugin == [enabled |-> "unset", _objects |-> EmptyCollection]

\* enable()
Enable(m, p) ==
    PLog([m EXCEPT !.plugins[p].enabled = "True"], "on_enable", p, None)

RECURSIVE DestroyEach(_, _)
\* for obj in self.objects: obj.destroy()
DestroyEach(m, S) ==
    IF S = {} THEN m
    ELSE DestroyEach(Val({ Destroy(x, MinOf(S)) : x \in {m} }),
                     S \ {MinOf(S)})

\* destroy_all_objects()
DestroyAllObjects(m, p) ==
    [DestroyEach(m, CollValues(m.plugins[p]._objects))
        EXCEPT !.plugins[p]._objects = CollClear(@)]

\* a disable() that leaves self.enabled as it is
Disable_KeepEnabled(m, p) ==
    PLog(Val({ DestroyAllObjects(x, p) : x \in {m} }), "on_disable", p, None)

\* disable()
Disable(m, p) ==
    PLog(Val({ DestroyAllObjects(x, p) :
               x \in {[m EXCEPT !.plugins[p].enabled = "False"]} }),
         "on_disable", p, None)

\* an instantiate() without the check of self.enabled
Instantiate_NoGuard(m, p, type, name, bpy_name) ==
    IF FreeId(m) = 0 THEN Raise(m, "OutOfIds")
    ELSE Val({
         Val({ IF Ok(m3) THEN Log(m3, "on_create", name, o) ELSE m3 : m3 \in {
         Val({ IF Ok(m2) THEN AddObject(m2, o) ELSE m2 : m2 \in {
         Val({ IF r.raised THEN Raise(m, "Exception")
               ELSE [m1 EXCEPT !.plugins[p]._objects = r.c] :
               r \in {CollAppend(m1.plugins[p]._objects, o, m1.objs)} })
         } }) } })
         : o \in {FreeId(m)},
           m1 \in {[m EXCEPT !.objs = Put(@, FreeId(m),
                                          NewObject(name, bpy_name, p, type))]} })

\* instantiate(obj_type, name, bpy_obj)
Instantiate(m, p, type, name, bpy_name) ==
    IF m.plugins[p].enabled = "unset" THEN Raise(m, "AttributeError")
    ELSE IF m.plugins[p].enabled = "False" THEN Raise(m, "Exception")
    ELSE IF FreeId(m) = 0 THEN Raise(m, "OutOfIds")
    ELSE Val({
         Val({ IF Ok(m3) THEN Log(m3, "on_create", name, o) ELSE m3 : m3 \in {
         Val({ IF Ok(m2) THEN AddObject(m2, o) ELSE m2 : m2 \in {
         Val({ IF r.raised THEN Raise(m, "Exception")
               ELSE [m1 EXCEPT !.plugins[p]._objects = r.c] :
               r \in {CollAppend(m1.plugins[p]._objects, o, m1.objs)} })
         } }) } })
         : o \in {FreeId(m)},
           m1 \in {[m EXCEPT !.objs = Put(@, FreeId(m),
                                          NewObject(name, bpy_name, p, type))]} })

\* on_add_bpy_object(bpy_obj) of the plugin class
PluginOnAddBpyObject(m, p, n) ==
    Val({ IF p = "MeshPlugin" THEN Instantiate(x, p, "Mesh", n, n)
          ELSE Instantiate(x, p, "Custom", n, n) :
          x \in {PLog(m, "on_add_bpy_object", p, n)} })


(***************************************************************************)
(* Runtime (core/runtime.py)                                               *)
(***************************************************************************)
\* is_connected()
IsConnected(m) == m.running /\ m.libConnected

\* one call of a loop "for plugin in self.plugins.values(): plugin.<what>";
\* only the third-party class defines the two on_*_unity callbacks
PluginCall(m, p, what, arg) ==
    CASE what = "enable" -> Enable(m, p)
      [] what = "disable" -> Disable(m, p)
      [] what = "on_add_bpy_object" -> PluginOnAddBpyObject(m, p, arg)
      [] what \in {"on_connected_to_unity", "on_disconnected_from_unity"} ->
            IF p = "CustomPlugin" THEN PLog(m, what, p, arg)
            ELSE Raise(m, "AttributeError")
      [] OTHER -> PLog(m, what, p, arg)

RECURSIVE ForPlugins(_, _, _, _)
\* for plugin in self.plugins.values(): ... , left by the first exception
ForPlugins(m, ps, what, arg) ==
    IF ps = <<>> THEN m
    ELSE ForPlugins(Val({ IF Ok(x) THEN PluginCall(x, Head(ps), what, arg)
                          ELSE x : x \in {m} }),
                    Tail(ps), what, arg)

\* on_connected_to_unity()
OnConnectedToUnity(m) ==
    ForPlugins(Log(m, "tag_redraw_viewports", None, 0), m.plugin_order,
               "on_connected_to_unity", None)

\* on_disconnected_from_unity()
OnDisconnectedFromUnity(m) ==
    ForPlugins(Log(m, "tag_redraw_viewports", None, 0), m.plugin_order,
               "on_disconnected_from_unity", None)


\* on_remove_bpy_object(name)
OnRemoveBpyObject(m, n) ==
    LET obj == FindByBpyName(m.objects, n)
    IN  ForPlugins(IF obj # 0 THEN Destroy(m, obj) ELSE m,
                   m.plugin_order, "on_remove_bpy_object", n)

RECURSIVE SyncAdded(_, _)
\* for bpy_obj in scene.objects: ... on_add_bpy_object(bpy_obj)
SyncAdded(m, order) ==
    IF order = <<>> THEN m
    ELSE SyncAdded(Val({ IF Ok(x) /\ Head(order) \notin x.current_names
                         THEN ForPlugins(x, x.plugin_order, "on_add_bpy_object",
                                         Head(order))
                         ELSE x
                         : x \in {m} }),
                   Tail(order))

RECURSIVE SyncRemoved(_, _)
\* for name in removed: self.on_remove_bpy_object(name)
SyncRemoved(m, removed) ==
    IF removed = {} THEN m
    ELSE SyncRemoved(Val({ IF Ok(x)
                           THEN OnRemoveBpyObject(x, FirstName(removed))
                           ELSE x : x \in {m} }),
                     removed \ {FirstName(removed)})

\* sync_tracked_objects(scene, depsgraph); order is scene.objects
SyncTrackedObjects(m, order) ==
    Val({ IF Ok(m2) THEN [m2 EXCEPT !.current_names = DOMAIN scene]
          ELSE m2 : m2 \in {
    Val({ IF Ok(m1) THEN SyncRemoved(m1, m1.current_names \ DOMAIN scene)
          ELSE m1 : m1 \in {
    SyncAdded(m, order)
    } }) } })

RECURSIVE RemoveEach(_, _)
\* for obj in self.invalidated_objects: remove it from both collections
RemoveEach(m, S) ==
    IF S = {} THEN m
    ELSE RemoveEach(
             Val({ LET o == MinOf(S)
                       p == x.objs[o].plugin
                   IN  [(IF p \in DOMAIN x.plugins
                         THEN [x EXCEPT !.plugins[p]._objects =
                                            CollRemove(@, o, x.objs)]
                         ELSE x)
                          EXCEPT !.objects = CollRemove(@, o, x.objs)]
                   : x \in {m} }),
             S \ {MinOf(S)})

\* remove_all_invalid_objects()
RemoveAllInvalidObjects(m) ==
    [RemoveEach(m, m.invalidated_objects) EXCEPT !.invalidated_objects = {}]

\* a cleanup that leaves the invalidated objects in place
Cleanup_KeepInvalidated(m) ==
    Log([m EXCEPT !.current_names = {}, !.objects = CollClear(@)],
        "Clear", None, 0)

\* cleanup()
Cleanup(m) ==
    Log([m EXCEPT !.current_names = {}, !.objects = CollClear(@),
                  !.invalidated_objects = {}],
        "Clear", None, 0)

\* bpy.app.timers before any registration.  A specification that leaves the
\* host's timers out keeps this value: its registry is not followed
NoTimers == [followed |-> FALSE, on_tick |-> 0, check_texture_sync |-> 0]

\* bpy.app.timers.register(self.on_tick) and
\* bpy.app.timers.register(self.check_texture_sync) of start()
RegisterTimers(t) ==
    IF t.followed
    THEN [t EXCEPT !.on_tick = @ + 1, !.check_texture_sync = @ + 1]
    ELSE t

\* a start() without the early return of a running coordinator
Start_NoGuard(m, order) ==
    Val({ IF Ok(m2) THEN Log(m2, "tag_redraw_viewports", None, 0)
          ELSE m2 : m2 \in {
    Val({ IF Ok(m1) THEN SyncTrackedObjects(m1, order) ELSE m1 : m1 \in {
    ForPlugins([m EXCEPT !.running = TRUE, !.handlers = @ + 1,
                         !.timers = RegisterTimers(@)],
               m.plugin_order, "enable", None)
    } }) } })

\* start()
Start(m, order) ==
    IF m.running THEN m
    ELSE
    Val({ IF Ok(m2) THEN Log(m2, "tag_redraw_viewports", None, 0)
          ELSE m2 : m2 \in {
    Val({ IF Ok(m1) THEN SyncTrackedObjects(m1, order) ELSE m1 : m1 \in {
    ForPlugins([m EXCEPT !.running = TRUE, !.handlers = @ + 1,
                         !.timers = RegisterTimers(@)],
               m.plugin_order, "enable", None)
    } }) } })

\* the part of stop() after the early return
StopBody(m) ==
    Val({ IF ~Ok(m1) THEN m1
          ELSE Log([Cleanup(ForPlugins(Log([m1 EXCEPT !.libConnected = FALSE,
                                                      !.libSharedMemory = FALSE],
                                           "Disconnect", None, 0),
                                       m1.plugin_order, "disable", None))
                       EXCEPT !.running = FALSE,
                              !.handlers = IF @ > 0 THEN @ - 1 ELSE @],
                   "tag_redraw_viewports", None, 0)
          : m1 \in {IF IsConnected(m) THEN OnDisconnectedFromUnity(m)
                    ELSE m} })

\* a stop() without the early return of a stopped coordinator
Stop_NoGuard(m) == StopBody(m)

\* stop()
Stop(m) == IF ~m.running THEN m ELSE StopBody(m)

\* a register_plugin() that enables the plugin of a stopped coordinator too
RegisterPlugin_EnableAlways(m, p) ==
    Val({ IF IsConnected(m3) THEN PLog(m3, "on_connected", p, None)
          ELSE m3 : m3 \in {
    Val({ Enable(m2, p) : m2 \in {
    PLog([m EXCEPT !.plugins = Put(@, p, NewPlugin),
                   !.plugin_order = Append(@, p)],
         "on_registered", p, None)
    } }) } })

\* register_plugin(plugin)
RegisterPlugin(m, p) ==
    Val({ IF IsConnected(m3) THEN PLog(m3, "on_connected", p, None)
          ELSE m3 : m3 \in {
    Val({ IF m2.running THEN Enable(m2, p) ELSE m2 : m2 \in {
    PLog([m EXCEPT !.plugins = Put(@, p, NewPlugin),
                   !.plugin_order = Append(@, p)],
         "on_registered", p, None)
    } }) } })

\* the objects of a plugin instance that is dropped keep a reference to
\* it, and to no registered plugin
Orphan(heap, p) ==
    [o \in DOMAIN heap |->
        IF heap[o].plugin = p THEN [heap[o] EXCEPT !.plugin = "gone"]
        ELSE heap[o]]

SelectSeq2(q, x) == SelectSeq(q, LAMBDA y : y # x)

\* an unregister_plugin() that does not disable the plugin
UnregisterPlugin_NoDisable(m, p) ==
    IF p \notin DOMAIN m.plugins THEN m
    ELSE Val({ [PLog(m1, "on_unregistered", p, None)
                   EXCEPT !.plugins = Del(@, p),
                          !.plugin_order = SelectSeq2(@, p),
                          !.objs = Orphan(@, p)]
               : m1 \in {IF IsConnected(m)
                         THEN PLog(m, "on_disconnected", p, None) ELSE m} })

\* an unregister_plugin() that calls on_unregistered before it disables
UnregisterPlugin_DisableLast(m, p) ==
    IF p \notin DOMAIN m.plugins THEN m
    ELSE Val({ [(IF m2.running THEN Disable(m2, p) ELSE m2)
                   EXCEPT !.plugins = Del(@, p),
                          !.plugin_order = SelectSeq2(@, p),
                          !.objs = Orphan(@, p)]
               : m2 \in {PLog(IF IsConnected(m)
                              THEN PLog(m, "on_disconnected", p, None) ELSE m,
                              "on_unregistered", p, None)} })

\* unregister_plugin(cls); the KeyError of an unknown class is swallowed
UnregisterPlugin(m, p) ==
    IF p \notin DOMAIN m.plugins THEN m
    ELSE Val({ [PLog(IF m1.running THEN Disable(m1, p) ELSE m1,
                     "on_unregistered", p, None)
                   EXCEPT !.plugins = Del(@, p),
                          !.plugin_order = SelectSeq2(@, p),
                          !.objs = Orphan(@, p)]
               : m1 \in {IF IsConnected(m)
                         THEN PLog(m, "on_disconnected", p, None) ELSE m} })

\* the instance of plugin class p; Runtime.plugins is keyed by the class,
\* and an instance is not equal to its class
InstanceOf(p) ==
    CASE p = "MeshPlugin" -> "MeshPlugin()"
      [] p = "CustomPlugin" -> "CustomPlugin()"

RECURSIVE UnregisterEach(_, _)
\* for plugin in list(self.plugins.values()): self.unregister_plugin(plugin)
UnregisterEach(m, ps) ==
    IF ps = <<>> THEN m
    ELSE UnregisterEach(
             Val({ UnregisterPlugin(x, InstanceOf(Head(ps))) : x \in {m} }),
             Tail(ps))

\* unregister_all_plugins()
UnregisterAllPlugins(m) == UnregisterEach(m, m.plugin_order)

(***************************************************************************)
(* Runtime.on_depsgraph_update (core/runtime.py 502-550)                   *)
(***************************************************************************)
\* geometry_updates[uid] = obj on a dict that keeps insertion order
SetItem(d, uid, o) ==
    IF \E i \in 1..Len(d) : d[i].uid = uid
    THEN [i \in 1..Len(d) |->
             IF d[i].uid = uid THEN [uid |-> uid, obj |-> o] ELSE d[i]]
    ELSE Append(d, [uid |-> uid, obj |-> o])

\* the body of the loop over depsgraph.updates for one Object update
ObjectUpdate(m, u) ==
    LET obj == FindByBpyName(m.objects, u.name)
    IN  IF obj = 0 THEN m
        ELSE
        Val({ IF Ok(m2) THEN UpdateProperties(m2, obj) ELSE m2 : m2 \in {
        Val({ IF ~Ok(m1) \/ ~u.is_updated_geometry THEN m1
              ELSE IF BpyObjRaises(m1, obj) THEN Raise(m1, "KeyError")
              ELSE [m1 EXCEPT !.geometry_updates =
                                  SetItem(@, MeshUid(m1, obj), obj)] : m1 \in {
        IF u.is_updated_transform THEN UpdateTransform(m, obj) ELSE m
        } }) } })

RECURSIVE ObjectUpdates(_, _)
\* for update in depsgraph.updates
ObjectUpdates(m, updates) ==
    IF updates = <<>> THEN m
    ELSE ObjectUpdates(Val({ IF Ok(x) THEN ObjectUpdate(x, Head(updates))
                             ELSE x : x \in {m} }),
                       Tail(updates))

RECURSIVE FlushGeometry(_, _)
\* for uid, obj in geometry_updates.items(): obj.update_mesh(depsgraph)
FlushGeometry(m, d) ==
    IF d = <<>> THEN m
    ELSE FlushGeometry(Val({ IF Ok(x) THEN UpdateMesh(x, Head(d).obj)
                             ELSE x : x \in {m} }),
                       Tail(d))

\* on_depsgraph_update(scene, depsgraph) up to its last statement
BeforeRemoveAllInvalid(m, order, updates) ==
    Val({ IF Ok(m4) THEN [m4 EXCEPT !.current_depsgraph = "None"] ELSE m4
          : m4 \in {
    Val({ IF Ok(m3)
          THEN ForPlugins(m3, m3.plugin_order, "on_depsgraph_update", None)
          ELSE m3 : m3 \in {
    Val({ IF Ok(m2) THEN FlushGeometry(m2, m2.geometry_updates)
          ELSE m2 : m2 \in {
    Val({ IF Ok(m1) THEN ObjectUpdates(m1, updates) ELSE m1 : m1 \in {
    SyncTrackedObjects([m EXCEPT !.current_depsgraph = "depsgraph"], order)
    } }) } }) } }) } })

\* on_depsgraph_update(scene, depsgraph)
OnDepsgraphUpdate(m, order, updates) ==
    Val({ IF Ok(m4) THEN RemoveAllInvalidObjects(m4) ELSE m4 : m4 \in {
    BeforeRemoveAllInvalid(m, order, updates)
    } })


\* the value on_tick returns while connected, and while it is not
TickFast == "0.008"
TickRetry == "0.05"

\* msg = lib.Update(): the poll, after which the library answers
\* IsConnectedToSharedMemory() and IsConnectedToUnity() as in `after`
Poll(m, after) ==
    [Log(m, "Update", None, 0)
        EXCEPT !.libSharedMemory = (after # "none"),
               !.libConnected = (after = "unity")]

\* response = lib.Connect(..) of on_tick, with what follows from it
Connect(m, response) ==
    Val({ CASE response = 1 -> [x EXCEPT !.libSharedMemory = TRUE]
            [] response = -1 -> Raise(x, "SystemExit")
            [] OTHER -> x
          : x \in {Log(m, "Connect", None, 0)} })

\* a timer's callback returned None: bpy.app.timers drops the registration
\* that fired
Expire(t, callback) ==
    IF t.followed THEN [t EXCEPT ![callback] = @ - 1] ELSE t


\* check_texture_sync(); painting: the mode is PAINT_TEXTURE and the paint
\* tool has a canvas
CheckTextureSync(m, painting) ==
    [(IF painting /\ IsConnected(m) THEN Log(m, "sync_texture", None, 0) ELSE m)
        EXCEPT !.ret = "texture_slot_update_frequency"]

\* on_tick()
OnTick(m, response, after) ==
    IF ~m.running THEN [m EXCEPT !.ret = "None", !.timers = Expire(@, "on_tick")]
    ELSE IF IsConnected(m)
    THEN Val({ IF Ok(m3) THEN [m3 EXCEPT !.ret = TickFast] ELSE m3 : m3 \in {
         Val({ IF ~IsConnected(m2) THEN OnDisconnectedFromUnity(m2) ELSE m2
               : m2 \in {
         Log(Log(Poll(m, after), "ConsumeRenderTextures", None, 0),
             "tag_redraw_viewports", None, 0)
         } }) } })
    ELSE Val({ IF Ok(m3) THEN [m3 EXCEPT !.ret = TickRetry] ELSE m3 : m3 \in {
         Val({ IF Ok(m2) /\ IsConnected(m2) THEN OnConnectedToUnity(m2)
               ELSE m2 : m2 \in {
         Val({ IF Ok(m1) THEN Poll(m1, after) ELSE m1 : m1 \in {
         IF m.libSharedMemory THEN m ELSE Connect(m, response)
         } }) } }) } })

(***************************************************************************)
(* SceneObjects (core/scene_objects.py) and the components                 *)
(* (core/component.py).  Two component classes: the built-in Mesh          *)
(* (components/mesh.py), which autobinds, and a third-party class Custom   *)
(* that the user attaches, that has a mesh of its own and whose callbacks  *)
(* may raise.  The instances of a set are visited in the order of their    *)
(* ids.                                                                    *)
(***************************************************************************)
ComponentClasses == {"Mesh", "Custom"}

\* is_autobind(): the class has a poll method.  Mesh.poll(obj) is true of
\* every host object of the model (all are of type 'MESH')
IsAutobind(c) == c = "Mesh"

MaxInstances == 3

\* SceneObjects.__init__, with the component instances (none yet)
NewSceneObjects ==
    [ objects |-> EmptyFn, registered |-> EmptyFn, autobinds |-> {},
      dirty_geometry |-> <<>>, current_names |-> {}, instances |-> EmptyFn ]

\* the machine record of a SceneObjects handler: the plugin, the host
\* scene, the interop calls and callbacks made so far, the pending
\* exception, and whether the callbacks of Custom raise this time
ComponentMachine(raises) ==
    [ objects |-> scene_objects.objects,
      registered |-> scene_objects.registered,
      autobinds |-> scene_objects.autobinds,
      dirty_geometry |-> scene_objects.dirty_geometry,
      current_names |-> scene_objects.current_names,
      instances |-> scene_objects.instances,
      scene |-> scene, calls |-> <<>>, exc |-> "none", raises |-> raises ]

\* BaseComponent.__init__(obj_name)
NewInstance(c, n) ==
    [cls |-> c, name |-> n, enabled |-> FALSE, properties |-> EmptyFn]

\* the id the next component instance gets, 0 when MaxInstances are alive
FreeInstance(m) ==
    IF (1..MaxInstances) \ DOMAIN m.instances = {} THEN 0
    ELSE MinOf((1..MaxInstances) \ DOMAIN m.instances)

\* a callback of the instance i (or of its class)
Callback(m, i, what) ==
    Val({ IF x.raises /\ x.instances[i].cls = "Custom"
          THEN Raise(x, "Exception") ELSE x
          : x \in {[m EXCEPT !.calls = Append(@, Ev(what, m.instances[i].cls,
                                                   m.instances[i].name, i))]} })

\* except Exception as err: self.on_component_error(..)
OnComponentError(m) ==
    IF m.exc \in {"none", "OutOfIds"} THEN m
    ELSE Log([m EXCEPT !.exc = "none"], "on_component_error", None, 0)

\* instance.enabled = val
SetEnabled(m, i, val) ==
    IF m.instances[i].enabled = val THEN m
    ELSE Val({ Callback(x, i, IF val THEN "on_enable" ELSE "on_disable")
               : x \in {[m EXCEPT !.instances[i].enabled = val]} })

\* instance.mesh_uid: None unless the class overrides it
ComponentMeshUid(m, i) ==
    IF m.instances[i].cls = "Custom" THEN m.scene[m.instances[i].name].data
    ELSE None

RECURSIVE LogEach(_, _, _)
\* one interop call for every name of S
LogEach(m, call, S) ==
    IF S = {} THEN m
    ELSE LogEach(Log(m, call, FirstName(S), 0), call, S \ {FirstName(S)})

\* on_add_object(obj)
OnAddObject(m, n) ==
    LogEach(Log(m, "AddObjectToScene", n, 0), "SetObjectTransform",
            { ch \in DOMAIN m.objects : ch \in DOMAIN m.scene
                                        /\ m.scene[ch].parent = n })


\* an on_add_component() that starts syncing the object every time
OnAddComponent_Always(m, n, i) ==
    Val({ [x EXCEPT !.calls = Append(@, Ev("AddComponent", x.instances[i].cls,
                                           n, i))]
          : x \in {OnAddObject(m, n)} })

\* on_add_component(obj, component)
OnAddComponent(m, n, i) ==
    Val({ [x EXCEPT !.calls = Append(@, Ev("AddComponent", x.instances[i].cls,
                                           n, i))]
          : x \in {IF Cardinality(m.objects[n]) < 2 THEN OnAddObject(m, n)
                   ELSE m} })

\* on_destroy_component(obj_name, component_name)
OnDestroyComponent(m, n, c) ==
    IF Cardinality(m.objects[n]) < 1 THEN Log(m, "RemoveObjectFromScene", n, 0)
    ELSE [m EXCEPT !.calls = Append(@, Ev("DestroyComponent", c, n, 0))]

\* add_component(obj, component) after its early return: the instance is
\* made, tracked, announced, enabled and created
AttachComponent(m, n, c) ==
    IF FreeInstance(m) = 0 THEN Raise(m, "OutOfIds")
    ELSE IF c \notin DOMAIN m.registered
    THEN Raise([m EXCEPT !.instances = Put(@, FreeInstance(m), NewInstance(c, n)),
                         !.objects = Put(@, n, (IF n \in DOMAIN @ THEN @[n]
                                                ELSE {}) \cup {FreeInstance(m)})],
               "KeyError")
    ELSE Val({
         Val({ IF ComponentMeshUid(m5, id) = None THEN m5
               ELSE [m5 EXCEPT !.dirty_geometry =
                                   SetItem(@, ComponentMeshUid(m5, id), id)]
               : m5 \in {
         Val({ OnComponentError(m4) : m4 \in {
         Val({ IF Ok(m3) THEN Callback(m3, id, "on_create") ELSE m3 : m3 \in {
         Val({ SetEnabled(m2, id, TRUE) : m2 \in {
         OnAddComponent(m1, n, id)
         } }) } }) } }) } })
         : id \in {FreeInstance(m)},
           m1 \in {[m EXCEPT
                      !.instances = Put(@, FreeInstance(m), NewInstance(c, n)),
                      !.objects = Put(@, n, (IF n \in DOMAIN @ THEN @[n]
                                             ELSE {}) \cup {FreeInstance(m)}),
                      !.registered[c] = @ \cup {FreeInstance(m)},
                      !.scene[n].components = @ \cup {c}]} })

\* an add_component() without the check for an instance of the class
AddComponent_NoGuard(m, n, c) == AttachComponent(m, n, c)

\* add_component(obj, component)
AddComponent(m, n, c) ==
    IF n \in DOMAIN m.objects /\ (\E i \in m.objects[n] : m.instances[i].cls = c)
    THEN m
    ELSE AttachComponent(m, n, c)

RECURSIVE AddComponents(_, _, _)
\* add_component(obj, c) for every class of the sequence cs
AddComponents(m, n, cs) ==
    IF cs = <<>> THEN m
    ELSE AddComponents(Val({ IF Ok(x) THEN AddComponent(x, n, Head(cs)) ELSE x
                             : x \in {m} }),
                       n, Tail(cs))

\* the classes of a set in the order they are visited in
ClassSeq(S) == CHOOSE q \in Perms(S) : \A i, j \in 1..Len(q) :
                                           i < j => q[i] = "Custom" \/ q[j] = "Mesh"

\* on_new_object(obj): the registered components of the object's meta,
\* then the autobind components
OnNewObject(m, n) ==
    Val({ AddComponents(x, n, ClassSeq(x.autobinds))
          : x \in {AddComponents(m, n, ClassSeq(m.scene[n].components
                                                \cap DOMAIN m.registered))} })

\* on_destroy_component and the try block of destroy_object and of
\* destroy_component: instance.enabled = False; instance.on_destroy()
Teardown(m, n, i) ==
    Val({ OnComponentError(m3) : m3 \in {
    Val({ IF Ok(m2) THEN Callback(m2, i, "on_destroy") ELSE m2 : m2 \in {
    Val({ SetEnabled(m1, i, FALSE) : m1 \in {
    OnDestroyComponent(m, n, m.instances[i].cls)
    } }) } }) } })

\* self.registered[instance.__class__].remove(instance)
Untrack(m, i) ==
    IF m.instances[i].cls \in DOMAIN m.registered
       /\ i \in m.registered[m.instances[i].cls]
    THEN [m EXCEPT !.registered[m.instances[i].cls] = @ \ {i}]
    ELSE Raise(m, "KeyError")

RECURSIVE DestroyInstances(_, _, _)
\* for instance in self.objects[obj_name] of destroy_object
DestroyInstances(m, n, S) ==
    IF S = {} THEN m
    ELSE DestroyInstances(
             Val({ IF Ok(y) THEN Untrack(y, MinOf(S)) ELSE y : y \in {
             Val({ IF Ok(x) THEN Teardown(x, n, MinOf(S)) ELSE x : x \in {m} })
             } }),
             n, S \ {MinOf(S)})

\* destroy_object(obj_name)
DestroyObject(m, n) ==
    IF n \notin DOMAIN m.objects THEN m
    ELSE Val({ IF Ok(x) THEN [x EXCEPT !.objects = Del(@, n)] ELSE x
               : x \in {DestroyInstances(Log(m, "RemoveObjectFromScene", n, 0), n,
                                         m.objects[n])} })

\* destroy_component(obj, instance)
DestroyComponent(m, n, i) ==
    Val({ IF ~Ok(m3) \/ m3.objects[n] # {} THEN m3
          ELSE [Log(m3, "RemoveObjectFromScene", n, 0)
                   EXCEPT !.objects = Del(@, n)]
          : m3 \in {
    Val({ IF Ok(m2)
          THEN [m2 EXCEPT !.scene[n].components = @ \ {m2.instances[i].cls}]
          ELSE m2 : m2 \in {
    Val({ Untrack([m1 EXCEPT !.objects[n] = @ \ {i}], i) : m1 \in {
    Teardown(m, n, i)
    } }) } }) } })

RECURSIVE DestroyEachInstance(_, _)
\* for instance in instances: self.destroy_component(instance.bpy_obj, ..)
DestroyEachInstance(m, S) ==
    IF S = {} THEN m
    ELSE DestroyEachInstance(
             Val({ IF ~Ok(x) THEN x
                   ELSE IF x.instances[MinOf(S)].name \notin DOMAIN x.scene
                   THEN Raise(x, "KeyError")
                   ELSE DestroyComponent(x, x.instances[MinOf(S)].name, MinOf(S))
                   : x \in {m} }),
             S \ {MinOf(S)})

\* destroy_all_component_instances(component)
DestroyAllComponentInstances(m, c) ==
    IF c \notin DOMAIN m.registered THEN Raise(m, "KeyError")
    ELSE DestroyEachInstance(m, m.registered[c])

\* a callback of the class c
ClassCallback(m, c, what) ==
    Val({ IF x.raises /\ c = "Custom" THEN Raise(x, "Exception") ELSE x
          : x \in {[m EXCEPT !.calls = Append(@, Ev(what, c, None, 0))]} })

RECURSIVE RegisterOn(_, _, _)
\* for obj_name in self.objects of register_component
RegisterOn(m, c, S) ==
    IF S = {} THEN m
    ELSE RegisterOn(
             Val({ IF ~Ok(x) THEN x
                   ELSE IF FirstName(S) \notin DOMAIN x.scene
                   THEN Raise(x, "KeyError")
                   ELSE IF c \in x.scene[FirstName(S)].components \/ IsAutobind(c)
                   THEN AddComponent(x, FirstName(S), c)
                   ELSE x
                   : x \in {m} }),
             c, S \ {FirstName(S)})

\* register_component(component)
RegisterComponent(m, c) ==
    Val({ IF ~Ok(m1) THEN OnComponentError(m1)
          ELSE RegisterOn([m1 EXCEPT !.registered = Put(@, c, {}),
                                     !.autobinds = IF IsAutobind(c)
                                                   THEN @ \cup {c} ELSE @],
                          c, DOMAIN m1.objects)
          : m1 \in {ClassCallback(m, c, "on_registered")} })

\* unregister_component(component)
UnregisterComponent(m, c) ==
    Val({ IF ~Ok(m2) THEN m2
          ELSE [m2 EXCEPT !.registered = Del(@, c), !.autobinds = @ \ {c}]
          : m2 \in {
    Val({ DestroyAllComponentInstances(m1, c) : m1 \in {
    Val({ OnComponentError(x) : x \in {ClassCallback(m, c, "on_unregistered")} })
    } }) } })

RECURSIVE SyncNew(_, _)
\* for obj in scene.objects: ... self.on_new_object(obj)
SyncNew(m, order) ==
    IF order = <<>> THEN m
    ELSE SyncNew(Val({ IF Ok(x) /\ Head(order) \notin x.current_names
                       THEN OnNewObject(x, Head(order)) ELSE x : x \in {m} }),
                 Tail(order))

RECURSIVE SyncGone(_, _)
\* for obj_name in removed: self.destroy_object(obj_name)
SyncGone(m, removed) ==
    IF removed = {} THEN m
    ELSE SyncGone(Val({ IF Ok(x) THEN DestroyObject(x, FirstName(removed))
                        ELSE x : x \in {m} }),
                  removed \ {FirstName(removed)})

\* sync_objects_with_scene(scene); order is scene.objects
SyncObjectsWithScene(m, order) ==
    Val({ IF Ok(m2) THEN [m2 EXCEPT !.current_names = DOMAIN m2.scene]
          ELSE m2 : m2 \in {
    Val({ IF Ok(m1) THEN SyncGone(m1, m1.current_names \ DOMAIN m1.scene)
          ELSE m1 : m1 \in {
    SyncNew(m, order)
    } }) } })

RECURSIVE MarkDirty(_, _)
\* for instance in components: ... self.dirty_geometry[mesh_uid] = instance
MarkDirty(m, S) ==
    IF S = {} THEN m
    ELSE MarkDirty(
             Val({ IF ComponentMeshUid(x, MinOf(S)) = None THEN x
                   ELSE [x EXCEPT !.dirty_geometry =
                             SetItem(@, ComponentMeshUid(x, MinOf(S)), MinOf(S))]
                   : x \in {m} }),
             S \ {MinOf(S)})

RECURSIVE ComponentUpdates(_, _)
\* for update in depsgraph.updates of SceneObjects.on_depsgraph_update
ComponentUpdates(m, updates) ==
    IF updates = <<>> THEN m
    ELSE ComponentUpdates(
             Val({ IF Head(updates).name \notin DOMAIN x.objects THEN x
                   ELSE IF x.objects[Head(updates).name] = {} THEN x
                   ELSE Val({ IF Head(updates).is_updated_geometry
                              THEN MarkDirty(y, y.objects[Head(updates).name])
                              ELSE y
                              : y \in {IF Head(updates).is_updated_transform
                                       THEN Log(x, "SetObjectTransform",
                                                Head(updates).name, 0)
                                       ELSE x} })
                   : x \in {m} }),
             Tail(updates))

RECURSIVE FlushDirty(_, _)
\* for component in self.dirty_geometry.values(): component.on_update_mesh
FlushDirty(m, d) ==
    IF d = <<>> THEN m
    ELSE FlushDirty(Val({ OnComponentError(y) : y \in {
                    Val({ Callback(x, Head(d).obj, "on_update_mesh") : x \in {m} })
                    } }),
                    Tail(d))

\* SceneObjects.on_depsgraph_update(scene, depsgraph)
ComponentsOnDepsgraphUpdate(m, order, updates) ==
    Val({ IF Ok(m3) THEN [m3 EXCEPT !.dirty_geometry = <<>>] ELSE m3 : m3 \in {
    Val({ IF Ok(m2) THEN FlushDirty(m2, m2.dirty_geometry) ELSE m2 : m2 \in {
    Val({ IF Ok(m1) THEN ComponentUpdates(m1, updates) ELSE m1 : m1 \in {
    SyncObjectsWithScene(m, order)
    } }) } }) } })

RECURSIVE ForComponents(_, _, _)
\* for component in self.all_components(): component.<what>()
ForComponents(m, S, what) ==
    IF S = {} THEN m
    ELSE ForComponents(Val({ IF Ok(x) THEN Callback(x, MinOf(S), what) ELSE x
                             : x \in {m} }),
                       S \ {MinOf(S)}, what)

\* all_components()
AllComponents(m) == UNION { m.registered[c] : c \in DOMAIN m.registered }

\* on_start() and on_stop()
ComponentEvent(m, what, order) ==
    Val({ IF Ok(x) THEN ForComponents(x, AllComponents(x), what) ELSE x
          : x \in {IF what = "on_coherence_start"
                   THEN SyncObjectsWithScene(m, order) ELSE m} })

(***************************************************************************)
(* Component properties (core/interop.py InteropProperty and               *)
(* BaseComponent.update_property).  A native value is a record of its      *)
(* Python type and its content; the type of the value of an EnumProperty   *)
(* is str.  Floats are written as integers and lose what a c_float cannot  *)
(* hold.                                                                   *)
(***************************************************************************)
\* the type tags of InteropProperty
Tag ==
    [BOOLEAN |-> 1, INTEGER |-> 2, FLOAT |-> 3, STRING |-> 4, ENUM |-> 5,
     COLOR |-> 6, FLOAT_VECTOR2 |-> 7, FLOAT_VECTOR3 |-> 8, FLOAT_VECTOR4 |-> 9]

\* set_value_from_bpy_property(value) on the struct prop: the struct it
\* leaves and the exception it raises
SetValueFromBpyProperty(prop, value) ==
    LET \* c_int(value) keeps the 32-bit values of an IntProperty as they are
        CInt(x) == x
        \* c_float: 24 bits of mantissa, ties to even (for |x| < 2^25)
        CFloat(x) == IF x <= 16777216 /\ x >= -16777216 THEN x
                     ELSE IF x % 2 = 0 THEN x
                     ELSE IF ((x - 1) \div 2) % 2 = 0 THEN x - 1 ELSE x + 1
        Vector4(x, y, z, w) == <<CFloat(x), CFloat(y), CFloat(z), CFloat(w)>>
        PyType == IF value.type = "enum" THEN "str" ELSE value.type
        v == value.v
        Done(q) == [exc |-> "none", prop |-> q]
    IN  CASE PyType = "bool" ->
               Done([prop EXCEPT !.type = Tag.BOOLEAN,
                                 !.intValue = IF v THEN 1 ELSE 0])
          [] PyType = "int" ->
               Done([prop EXCEPT !.type = Tag.INTEGER, !.intValue = CInt(v)])
          [] PyType = "float" ->
               Done([prop EXCEPT !.type = Tag.FLOAT,
                                 !.vectorValue = Vector4(v, 0, 0, 0)])
          [] PyType = "str" ->
               Done([prop EXCEPT !.type = Tag.STRING, !.stringValue = v])
          [] PyType = "Color" ->
               Done([prop EXCEPT !.type = Tag.COLOR,
                                 !.vectorValue = Vector4(v[1], v[2], v[3], 1)])
          [] PyType = "bpy_prop_array" /\ Len(v) = 2 ->
               Done([prop EXCEPT !.type = Tag.FLOAT_VECTOR2,
                                 !.vectorValue = Vector4(v[1], v[2], 0, 0)])
          [] PyType = "bpy_prop_array" /\ Len(v) = 3 ->
               Done([prop EXCEPT !.type = Tag.FLOAT_VECTOR3,
                                 !.vectorValue = Vector4(v[1], v[2], v[3], 0)])
          [] PyType = "bpy_prop_array" /\ Len(v) = 4 ->
               Done([prop EXCEPT !.type = Tag.FLOAT_VECTOR4,
                                 !.vectorValue = Vector4(v[1], v[2], v[3], v[4])])
          [] OTHER -> [exc |-> "TypeError", prop |-> prop]

\* an update_property() that stores and sends the struct whether or not the
\* conversion raised
UpdateProperty_NoRaise(m, i, name, value) ==
    Val({ [x EXCEPT !.instances[i].properties = Put(@, name, r.prop),
                    !.calls = Append(@, Ev("UpdateComponentProperty",
                                           x.instances[i].cls, r.prop, i))]
          : x \in {[m EXCEPT !.calls = Append(@, Ev("update_property",
                                                    m.instances[i].cls, value, i))]},
            r \in {SetValueFromBpyProperty(
                      IF name \in DOMAIN m.instances[i].properties
                      THEN m.instances[i].properties[name]
                      ELSE [name |-> name, type |-> 0, intValue |-> 0,
                            vectorValue |-> <<0, 0, 0, 0>>, stringValue |-> <<>>],
                      value)} })

\* update_property(name, value) of the instance i
UpdateProperty(m, i, name, value) ==
    Val({ IF r.exc # "none" THEN Raise(x, r.exc)
          ELSE [x EXCEPT !.instances[i].properties = Put(@, name, r.prop),
                         !.calls = Append(@, Ev("UpdateComponentProperty",
                                                x.instances[i].cls, r.prop, i))]
          : x \in {[m EXCEPT !.calls = Append(@, Ev("update_property",
                                                    m.instances[i].cls, value, i))]},
            r \in {SetValueFromBpyProperty(
                      IF name \in DOMAIN m.instances[i].properties
                      THEN m.instances[i].properties[name]
                      ELSE [name |-> name, type |-> 0, intValue |-> 0,
                            vectorValue |-> <<0, 0, 0, 0>>, stringValue |-> <<>>],
                      value)} })

(***************************************************************************)
(* Inbound messages (core/interop.py 220-248, core/scene_objects.py        *)
(* 381-389 and 571-584)                                                    *)
(***************************************************************************)
\* RpcMessage ID for InteropComponentMessage payloads
RPC_COMPONENT_MESSAGE_ID == 255

\* InteropMessageHeader.type: the field is a c_byte, a signed 8-bit
\* integer, so the byte b of the wire reads as b - 256 from 128 on
HeaderType(b) == IF b >= 128 THEN b - 256 ELSE b

\* the InteropMessage the library returns for a header byte, the name in
\* its target field and the InteropComponentMessage its data points to
InteropMessage(b, target, component_msg) ==
    [header |-> [type |-> HeaderType(b)], target |-> target,
     data |-> component_msg]

\* InteropMessage.invalid
Invalid(message) == message.header.type < 1

\* InteropMessage.as_component_message(); None is <<>>
AsComponentMessage(message) ==
    IF message.header.type # RPC_COMPONENT_MESSAGE_ID THEN None
    ELSE message.data

\* SceneObjects.on_message(message) with dispatch_component_message():
\* self.objects is indexed with message.target, an InteropString64; a
\* ctypes Structure is not hashable, and the TypeError of the lookup is not
\* the KeyError on_message catches
OnMessage(m, message) ==
    LET component_msg == AsComponentMessage(message)
    IN  IF component_msg = None THEN m
        ELSE Raise(m, "TypeError")

(***************************************************************************)
(* The end of an operation: instances nothing refers to any more are       *)
(* collected, and the machine becomes the next state.                      *)
(***************************************************************************)
Referenced(m) ==
    LET Of(c) == { c._objects[n] : n \in DOMAIN c._objects }
                 \cup { c._objects_by_bpy_name[n] : n \in DOMAIN c._objects_by_bpy_name }
    IN  Of(m.objects) \cup m.invalidated_objects
        \cup UNION { Of(m.plugins[p]._objects) : p \in DOMAIN m.plugins }

Collect(m0) ==
    CHOOSE r \in { [m EXCEPT !.objs = [o \in (DOMAIN m.objs) \cap Referenced(m)
                                          |-> m.objs[o]]] : m \in {m0} } : TRUE

\* the callbacks that tell a plugin of the connection: the pair of the
\* plugin API and the pair the Runtime's fan-out calls
ConnectedCalls == {"on_connected", "on_connected_to_unity"}
DisconnectedCalls == {"on_disconnected", "on_disconnected_from_unity"}

\* history of the notifications of one plugin instance: none yet, the last
\* one was connected, the last one was disconnected, or two of one kind
\* followed each other (or the first one was disconnected)
NotifiedStep(st, call) ==
    CASE call \in ConnectedCalls /\ st \in {"none", "disconnected"} ->
            "connected"
      [] call \in DisconnectedCalls /\ st = "connected" -> "disconnected"
      [] OTHER -> "bad"

RECURSIVE NotifiedRun(_, _)
NotifiedRun(st, evs) ==
    IF evs = <<>> THEN st
    ELSE NotifiedRun(NotifiedStep(st, Head(evs).call), Tail(evs))

\* the history after an operation that made the calls cs and left the
\* registry reg; an instance that is dropped takes its history with it
NotificationHistory(old, cs, reg) ==
    [p \in PluginClasses |->
        LET st == NotifiedRun(old[p],
                      SelectSeq(cs, LAMBDA e :
                          /\ e.plugin = p
                          /\ e.call \in ConnectedCalls \cup DisconnectedCalls))
        IN  IF p \notin DOMAIN reg /\ st # "bad" THEN "none" ELSE st]

\* an operation as lastOp records it: what was called, on what, whether the
\* coordinator was running when it was called, the exception it raised, and
\* what it last assigned to Runtime.current_depsgraph (a depsgraph, None, or
\* nothing: only on_depsgraph_update assigns it, first thing).  notified is
\* a history of the connection notifications each plugin received, kept
\* where the host's timers are followed
Op(op, plugin, name, id, exc) ==
    [op |-> op, plugin |-> plugin, name |-> name, id |-> id, exc |-> exc,
     running |-> running, updates |-> <<>>, ret |-> "",
     current_depsgraph |-> "unassigned", failing |-> {},
     notified |-> [p \in PluginClasses |-> "none"]]

\* exit() has not ended the process
Alive == lastOp.exc # "SystemExit"

CommitBatch(m0, op, plugin, name, id, updates) ==
    \E m \in { Collect(m0) } :
        /\ m.exc # "OutOfIds"
        /\ Alive
        /\ libConnected' = m.libConnected
        /\ libSharedMemory' = m.libSharedMemory
        /\ running' = m.running
        /\ plugins' = m.plugins
        /\ plugin_order' = m.plugin_order
        /\ objects' = m.objects
        /\ current_names' = m.current_names
        /\ invalidated_objects' = m.invalidated_objects
        /\ handlers' = m.handlers
        /\ timers' = m.timers
        /\ UNCHANGED scene_objects
        /\ objs' = m.objs
        /\ calls' = m.calls
        /\ lastOp' = [Op(op, plugin, name, id, m.exc)
                          EXCEPT !.updates = updates, !.ret = m.ret,
                                 !.current_depsgraph = m.current_depsgraph,
                                 !.failing = m.failing,
                                 !.notified =
                                     IF timers.followed
                                     THEN NotificationHistory(lastOp.notified,
                                                              m.calls, m.plugins)
                                     ELSE @]

Commit(m0, op, plugin, name, id) == CommitBatch(m0, op, plugin, name, id, <<>>)

\* the end of a SceneObjects handler
CommitComponents(m, op, c, name, id) ==
    /\ m.exc # "OutOfIds"
    /\ Alive
    /\ scene_objects' =
          [ objects |-> m.objects, registered |-> m.registered,
            autobinds |-> m.autobinds, dirty_geometry |-> m.dirty_geometry,
            current_names |-> m.current_names,
            instances |->
                [i \in { k \in DOMAIN m.instances :
                           \/ k \in AllComponents(m)
                           \/ \E n \in DOMAIN m.objects : k \in m.objects[n]
                           \/ \E x \in 1..Len(m.dirty_geometry) :
                                  m.dirty_geometry[x].obj = k }
                   |-> m.instances[i]] ]
    /\ scene' = m.scene
    /\ calls' = m.calls
    /\ lastOp' = Op(op, c, name, id, m.exc)
    /\ UNCHANGED <<libConnected, libSharedMemory, running, plugins,
                   plugin_order, objects, current_names,
                   invalidated_objects, handlers, timers, objs>>

(***************************************************************************)
(* The host scene (bpy.data.objects), changed by the user between the      *)
(* handlers' runs                                                          *)
(***************************************************************************)
MaxHosts == 2

\* the objects the user creates: "c" has the plain mesh and may be parented,
\* "a" has either mesh, "a_" has the plain mesh under modifiers
ValidHost(n, h) ==
    CASE n = <<"c">> ->
           /\ h.data = <<"m">> /\ ~h.mods
           /\ h.parent \in ((DOMAIN scene) \ {n}) \cup {None}
      [] n = <<"a">> ->
           /\ h.parent = None
           /\ h.mods = (h.data = <<"_", "m">>)
      [] OTHER ->
           h.parent = None /\ h.data = <<"m">> /\ h.mods

NoOp == Op("host", "", None, 0, "none")

HostUnchanged ==
    /\ Alive
    /\ UNCHANGED <<libConnected, libSharedMemory, running, plugins,
                   plugin_order, objects, current_names,
                   invalidated_objects, handlers, timers, scene_objects,
                   objs>>

HostAdd(n, h) ==
    /\ n \notin DOMAIN scene
    /\ Cardinality(DOMAIN scene) < MaxHosts
    /\ ValidHost(n, h)
    /\ scene' = Put(scene, n, h)
    /\ calls' = <<>>
    /\ lastOp' = NoOp
    /\ HostUnchanged

\* deleting an object leaves its children without a parent
HostRemove(n) ==
    /\ n \in DOMAIN scene
    /\ scene' = [x \in (DOMAIN scene) \ {n} |->
                    IF scene[x].parent = n
                    THEN [scene[x] EXCEPT !.parent = None] ELSE scene[x]]
    /\ calls' = <<>>
    /\ lastOp' = NoOp
    /\ HostUnchanged

\* renaming an object keeps its data and its children
HostRename(old, new) ==
    /\ old \in DOMAIN scene
    /\ new \notin DOMAIN scene
    /\ old # <<"c">> /\ new # <<"c">>
    /\ scene' = [x \in ((DOMAIN scene) \ {old}) \cup {new} |->
                    IF x = new THEN scene[old]
                    ELSE IF scene[x].parent = old
                    THEN [scene[x] EXCEPT !.parent = new] ELSE scene[x]]
    /\ calls' = <<>>
    /\ lastOp' = Op("rename", "", new, 0, "none")
    /\ HostUnchanged

(***************************************************************************)
(* The operations                                                          *)
(***************************************************************************)
MaxUpdates == 2

\* scene.objects: its order matters only where an object is new
Orders ==
    IF (DOMAIN scene) \subseteq current_names
    THEN { CHOOSE q \in Perms(DOMAIN scene) : TRUE }
    ELSE Perms(DOMAIN scene)

\* an Object update of depsgraph.updates, flagged as a transform or as a
\* geometry update
Update == [name : DOMAIN scene, is_updated_transform : BOOLEAN,
           is_updated_geometry : BOOLEAN]

\* depsgraph.updates holds one update per object; the model lists them by
\* name and takes at most max of them
Updates(max) ==
    UNION { { q \in [1..k -> { u \in Update :
                                 u.is_updated_transform # u.is_updated_geometry }] :
                \A i, j \in 1..k :
                    i < j => NameRank(q[i].name) < NameRank(q[j].name) }
            : k \in 0..max }

\* the registrations followed in bpy.app.timers
MaxTimers == 2

StartOp ==
    \E order \in Orders :
        /\ running \/ ~timers.followed \/ timers.check_texture_sync < MaxTimers
        /\ Commit(Start(Machine, order), "start", "", None, 0)
        /\ UNCHANGED scene

StopOp ==
    /\ Commit(Stop(Machine), "stop", "", None, 0)
    /\ UNCHANGED scene

\* on_load_pre(): the file changes
LoadPreOp ==
    /\ handlers > 0
    /\ Commit(Stop(Machine), "on_load_pre", "", None, 0)
    /\ UNCHANGED scene

\* the timer fires.  response is what lib.Connect() returns: 1 when the
\* shared memory space was opened, -1 on an error, any other value when the
\* space does not exist; after is the connection as the library sees it
\* after lib.Update(): none, the shared memory space only, or the space
\* with Unity on its other end, which it can be only if the space was open
\* before the poll
OnTickOp(responses, afters) ==
    \E response \in responses, after \in afters :
        /\ IF timers.followed THEN timers.on_tick > 0 ELSE running
        /\ after # "none" => (libSharedMemory \/ response = 1)
        /\ Commit(OnTick(Machine, response, after), "on_tick", "", None, 0)
        /\ UNCHANGED scene

\* the texture timer fires
CheckTextureSyncOp ==
    \E painting \in BOOLEAN :
        /\ timers.check_texture_sync > 0
        /\ Commit(CheckTextureSync(Machine, painting), "check_texture_sync", "",
                  None, 0)
        /\ UNCHANGED scene

RegisterPluginOp ==
    \E p \in PluginClasses \ DOMAIN plugins :
        /\ Commit(RegisterPlugin(Machine, p), "register_plugin", p, None, 0)
        /\ UNCHANGED scene

UnregisterPluginOp ==
    \E p \in PluginClasses :
        /\ Commit(UnregisterPlugin(Machine, p), "unregister_plugin", p, None, 0)
        /\ UNCHANGED scene

\* the add-on is unregistered
UnregisterAllPluginsOp ==
    /\ Commit(UnregisterAllPlugins(Machine), "unregister_all_plugins", "",
              None, 0)
    /\ UNCHANGED scene

DepsgraphUpdateOp(m, max) ==
    \E order \in Orders, updates \in Updates(max) :
        /\ handlers > 0
        /\ CommitBatch(OnDepsgraphUpdate(m, order, updates),
                       "on_depsgraph_update", "", None, 0, updates)
        /\ UNCHANGED scene

\* plugin code calls self.instantiate(...) with a type of its own
InstantiateOp ==
    \E p \in (DOMAIN plugins) \cap {"CustomPlugin"}, name \in { <<"x">> },
       bpy_name \in (DOMAIN scene) \cup {None} :
        /\ Commit(Instantiate(Machine, p, "Custom", name, bpy_name),
                  "instantiate", p, name, FreeId(Machine))
        /\ UNCHANGED scene

\* plugin code calls destroy() on a valid object of its self.objects
DestroyOp ==
    \E o \in DOMAIN objs :
        /\ objs[o].valid
        /\ objs[o].plugin = "CustomPlugin"
        /\ o \in CollValues(plugins["CustomPlugin"]._objects)
        /\ Commit(Destroy(Machine, o), "destroy", objs[o].plugin,
                  objs[o].name, o)
        /\ UNCHANGED scene

InitRuntime ==
    /\ scene = EmptyFn
    /\ libConnected = FALSE
    /\ libSharedMemory = FALSE
    /\ running = FALSE
    /\ plugins = EmptyFn
    /\ plugin_order = <<>>
    /\ objects = EmptyCollection
    /\ current_names = {}
    /\ invalidated_objects = {}
    /\ handlers = 0
    /\ scene_objects = NewSceneObjects
    /\ objs = EmptyFn
    /\ calls = <<>>
    /\ lastOp = Op("init", "", None, 0, "none")

Init ==
    /\ InitRuntime
    /\ timers = NoTimers

\* the scenes of the lifecycle: one object
LifeHosts == { <<"a">> }
LifeAttrs ==
    { [data |-> <<"m">>, mods |-> FALSE, parent |-> None, components |-> {}] }

Next ==
    \/ \E n \in LifeHosts, h \in LifeAttrs : HostAdd(n, h)
    \/ \E n \in LifeHosts : HostRemove(n)
    \/ StartOp
    \/ StopOp
    \/ LoadPreOp
    \/ OnTickOp({1, 0}, {"none", "unity"})
    \/ RegisterPluginOp
    \/ UnregisterPluginOp
    \/ UnregisterAllPluginsOp
    \/ DepsgraphUpdateOp(Machine, 1)
    \/ InstantiateOp
    \/ DestroyOp

Spec == Init /\ [][Next]_vars

(***************************************************************************)
(* The connection pump on its own: the timer, every answer of the library, *)
(* and the lifecycle operations around them, on an empty scene.            *)
(***************************************************************************)
InitTick ==
    /\ InitRuntime
    /\ timers = [NoTimers EXCEPT !.followed = TRUE]

NextTick ==
    \/ StartOp
    \/ StopOp
    \/ LoadPreOp
    \/ OnTickOp({1, 0, -1}, {"none", "shm", "unity"})
    \/ CheckTextureSyncOp
    \/ RegisterPluginOp
    \/ UnregisterPluginOp
    \/ UnregisterAllPluginsOp

SpecTick == InitTick /\ [][NextTick]_vars

(***************************************************************************)
(* The connect retry of a coordinator that is not stopped: the library     *)
(* refuses or accepts while there is no connection, and keeps a connection *)
(* it has; plugins come and go.  bpy.app.timers fires on_tick again after  *)
(* every interval the callback returns, and the transport accepts in the   *)
(* end: a tick that is accepted cannot be put off for ever.                *)
(***************************************************************************)
SpecLive ==
    /\ InitTick
    /\ [][ \/ StartOp
           \/ RegisterPluginOp
           \/ UnregisterPluginOp
           \/ OnTickOp({1, 0}, IF libConnected THEN {"unity"}
                               ELSE {"none", "shm", "unity"}) ]_vars
    /\ WF_vars(OnTickOp({1}, {"unity"}))

(***************************************************************************)
(* The components on their own: the SceneObjects plugin, the user editing  *)
(* the scene and attaching components, and the coordinator's events.       *)
(***************************************************************************)
\* scene.objects: its order matters only where an object is new
ComponentOrders ==
    IF (DOMAIN scene) \subseteq scene_objects.current_names
    THEN { CHOOSE q \in Perms(DOMAIN scene) : TRUE }
    ELSE Perms(DOMAIN scene)

\* the callbacks of on_start() and on_stop(); on_connected() and
\* on_disconnected() are the loop of on_stop() with their own callback
ComponentEvents == {"on_coherence_start", "on_coherence_stop"}

RegisterComponentOp ==
    \E c \in ComponentClasses \ DOMAIN scene_objects.registered,
       raises \in BOOLEAN :
        CommitComponents(Val({ RegisterComponent(m, c)
                               : m \in {ComponentMachine(raises)} }),
                         "register_component", c, None, 0)

UnregisterComponentOp ==
    \E c \in ComponentClasses, raises \in BOOLEAN :
        CommitComponents(Val({ UnregisterComponent(m, c)
                               : m \in {ComponentMachine(raises)} }),
                         "unregister_component", c, None, 0)

\* add_component_by_name(obj, component_name) with a registered component
AddComponentOp ==
    \E n \in DOMAIN scene, c \in DOMAIN scene_objects.registered,
       raises \in BOOLEAN :
        CommitComponents(Val({ AddComponent(m, n, c)
                               : m \in {ComponentMachine(raises)} }),
                         "add_component", c, n, 0)

\* destroy_component_by_name(obj, component_name) with an attached component
DestroyComponentOp ==
    \E n \in (DOMAIN scene) \cap DOMAIN scene_objects.objects,
       raises \in BOOLEAN :
        \E i \in scene_objects.objects[n] :
            CommitComponents(Val({ DestroyComponent(m, n, i)
                                   : m \in {ComponentMachine(raises)} }),
                             "destroy_component",
                             scene_objects.instances[i].cls, n, i)

ComponentEventOp ==
    \E what \in ComponentEvents, order \in ComponentOrders,
       raises \in BOOLEAN :
        CommitComponents(Val({ ComponentEvent(m, what, order)
                               : m \in {ComponentMachine(raises)} }),
                         what, "", None, 0)

ComponentsDepsgraphUpdateOp ==
    \E order \in ComponentOrders, updates \in Updates(1),
       raises \in BOOLEAN :
        /\ CommitComponents(Val({ ComponentsOnDepsgraphUpdate(m, order, updates)
                                  : m \in {ComponentMachine(raises)} }),
                            "components_on_depsgraph_update", "", None, 0)

\* the scenes of the components: one object at a time, which the user adds
\* as "a" with the plain mesh and renames

NextComponents ==
    \/ \E n \in LifeHosts, h \in LifeAttrs :
          scene = EmptyFn /\ HostAdd(n, h)
    \/ \E n \in HostNames : HostRemove(n)
    \/ \E old, new \in HostNames : HostRename(old, new)
    \/ RegisterComponentOp
    \/ UnregisterComponentOp
    \/ AddComponentOp
    \/ DestroyComponentOp
    \/ ComponentEventOp
    \/ ComponentsDepsgraphUpdateOp

SpecComponents == Init /\ [][NextComponents]_vars

(***************************************************************************)
(* The interop of one component: an object "a" with an instance of Custom  *)
(* (the state that register_component and add_component leave), whose      *)
(* properties the user edits.                                              *)
(***************************************************************************)
\* the values of the properties: of every supported type, arrays of the
\* dimensions 1 to 5, and None
PropertyValues ==
    [type : {"bool"}, v : BOOLEAN]
    \cup [type : {"int"}, v : {0, -3}]
    \cup [type : {"float"}, v : {2, 16777217}]
    \cup [type : {"str", "enum"}, v : { <<"s">> }]
    \cup [type : {"Color"}, v : { <<1, 0, 2>> }]
    \cup [type : {"bpy_prop_array"},
          v : { <<5>>, <<5, 6>>, <<5, 6, 7>>, <<5, 6, 7, 8>>, <<5, 6, 7, 8, 9>> }]
    \cup [type : {"NoneType"}, v : {0}]

InitInterop ==
    /\ libConnected = FALSE
    /\ libSharedMemory = FALSE
    /\ running = FALSE
    /\ plugins = EmptyFn
    /\ plugin_order = <<>>
    /\ objects = EmptyCollection
    /\ current_names = {}
    /\ invalidated_objects = {}
    /\ handlers = 0
    /\ timers = NoTimers
    /\ objs = EmptyFn
    /\ scene = [n \in LifeHosts |->
                  [data |-> <<"m">>, mods |-> FALSE, parent |-> None,
                   components |-> {"Custom"}]]
    /\ scene_objects =
          [NewSceneObjects EXCEPT
              !.objects = [n \in LifeHosts |-> {1}],
              !.registered = [c \in {"Custom"} |-> {1}],
              !.dirty_geometry = <<[uid |-> <<"m">>, obj |-> 1]>>,
              !.instances = [i \in {1} |->
                  [NewInstance("Custom", <<"a">>) EXCEPT !.enabled = TRUE]]]
    /\ calls = <<>>
    /\ lastOp = Op("init", "", None, 0, "none")

\* the user edits a property of the component: the update callback of the
\* PropertyGroup calls update_property
UpdatePropertyOp ==
    \E i \in DOMAIN scene_objects.instances, name \in {"p"},
       value \in PropertyValues :
        CommitComponents(Val({ UpdateProperty(m, i, name, value)
                               : m \in {ComponentMachine(FALSE)} }),
                         "update_property", scene_objects.instances[i].cls,
                         name, i)

\* the library hands the plugin a message: any header byte, for a component
\* of the tracked object or for one it does not have
OnMessageOp ==
    \E b \in {0, 1, 127, 128, 254, 255}, c \in ComponentClasses,
       n \in DOMAIN scene :
        CommitComponents(
            OnMessage(ComponentMachine(FALSE),
                      InteropMessage(b, c, [target |-> n, id |-> "id"])),
            "on_message", c, n, b)

SpecInterop == InitInterop /\ [][UpdatePropertyOp \/ OnMessageOp]_vars

(***************************************************************************)
(* SceneObjectCollection on its own: any objects, any sequence of append,  *)
(* remove and clear on one collection (the variable objects).              *)
(***************************************************************************)
CollObjs == 3

InitColl ==
    /\ scene = EmptyFn
    /\ libConnected = FALSE
    /\ libSharedMemory = FALSE
    /\ running = FALSE
    /\ plugins = EmptyFn
    /\ plugin_order = <<>>
    /\ objects = EmptyCollection
    /\ current_names = {}
    /\ invalidated_objects = {}
    /\ handlers = 0
    /\ timers = NoTimers
    /\ scene_objects = NewSceneObjects
    /\ objs \in [1..CollObjs ->
                   { NewObject(n, b, "gone", "Custom") :
                       n \in { <<"x">>, <<"a">> },
                       b \in { None, <<"a">>, <<"c">> } }]
    /\ calls = <<>>
    /\ lastOp = Op("init", "", None, 0, "none")

CollUnchanged ==
    UNCHANGED <<scene, libConnected, libSharedMemory, running, plugins,
                plugin_order,
                current_names, invalidated_objects, handlers, timers,
                scene_objects, objs, calls>>

CollAppendOp ==
    \E o \in DOMAIN objs :
        LET r == CollAppend(objects, o, objs)
        IN  /\ objects' = r.c
            /\ lastOp' = Op("append", "", objs[o].name, o,
                            IF r.raised THEN "Exception" ELSE "none")
            /\ CollUnchanged

CollRemoveOp ==
    \E o \in DOMAIN objs :
        /\ objects' = CollRemove(objects, o, objs)
        /\ lastOp' = Op("remove", "", objs[o].name, o, "none")
        /\ CollUnchanged

CollClearOp ==
    /\ objects' = CollClear(objects)
    /\ lastOp' = Op("clear", "", None, 0, "none")
    /\ CollUnchanged

NextColl == CollAppendOp \/ CollRemoveOp \/ CollClearOp

SpecColl == InitColl /\ [][NextColl]_vars

(***************************************************************************)
(* Properties of SceneObjectCollection                                     *)
(***************************************************************************)
\* the objects a collection holds under either index
Stored(c) ==
    { c._objects[n] : n \in DOMAIN c._objects }
    \cup { c._objects_by_bpy_name[b] : b \in DOMAIN c._objects_by_bpy_name }

IndicesConsistent(c, heap) ==
    /\ \A b \in DOMAIN c._objects_by_bpy_name :
          LET o == c._objects_by_bpy_name[b]
          IN  /\ heap[o].name \in DOMAIN c._objects
              /\ c._objects[heap[o].name] = o
    /\ \A n \in DOMAIN c._objects :
          LET o == c._objects[n]
          IN  heap[o].bpy_name # None =>
                /\ heap[o].bpy_name \in DOMAIN c._objects_by_bpy_name
                /\ c._objects_by_bpy_name[heap[o].bpy_name] = o

\* C1: after any sequence of append / remove / clear the two indices agree
\* (an object under a host-object name is under its logical name, an object
\* with a host reference is under that host-object name), and the object
\* just removed has no entry in either index.
C1_IndicesConsistent ==
    /\ IndicesConsistent(objects, objs)
    /\ lastOp.op = "remove" => lastOp.id \notin Stored(objects)

\* C2: an append of an object whose logical name is a key, or whose
\* host-object name is a key of the host-name index, fails and leaves both
\* indices as they were.
C2_AppendDuplicateFails ==
    [][ \A o \in DOMAIN objs :
          (lastOp'.op = "append" /\ lastOp'.id = o
             /\ AppendRaises(objects, o, objs))
          => (lastOp'.exc = "Exception" /\ objects' = objects) ]_vars

\* an append has just failed on a collection that holds an object under
\* the same host-object name and another logical name
C2_Witness ==
    /\ lastOp.op = "append"
    /\ lastOp.exc = "Exception"
    /\ objs[lastOp.id].name \notin DOMAIN objects._objects
    /\ objs[lastOp.id].bpy_name \in DOMAIN objects._objects_by_bpy_name

(***************************************************************************)
(* Properties of the Runtime lifecycle                                     *)
(***************************************************************************)
\* everything but the host scene and the record of the last operation
state == <<libConnected, libSharedMemory, running, plugins, plugin_order, objects,
           current_names, invalidated_objects, handlers, timers, objs>>

HasCall(c) == \E i \in 1..Len(calls) : calls[i].call = c

HasPluginCall(c, p) ==
    \E i \in 1..Len(calls) : calls[i].call = c /\ calls[i].plugin = p

\* C3: start() on a running coordinator changes no state and makes no
\* plugin callback, no handler registration and no interop call.
C3_StartIdempotent ==
    [][ (lastOp'.op = "start" /\ running)
        => (UNCHANGED state /\ calls' = <<>> /\ lastOp'.exc = "none") ]_vars

\* start() has returned on a coordinator that was running with an enabled
\* plugin
C3_Witness ==
    /\ lastOp.op = "start"
    /\ lastOp.running
    /\ \E p \in DOMAIN plugins : plugins[p].enabled = "True"

\* C4: stop() on a coordinator that is not running changes no state,
\* disables no plugin and makes no transport call.
C4_StopIdempotent ==
    [][ (lastOp'.op = "stop" /\ ~running)
        => (UNCHANGED state /\ calls' = <<>> /\ lastOp'.exc = "none") ]_vars

\* stop() has returned on a coordinator that an earlier stop() had stopped
C4_Witness ==
    /\ lastOp.op = "stop"
    /\ ~lastOp.running
    /\ \E p \in DOMAIN plugins : plugins[p].enabled = "False"

\* C5: when stop() returns from a running coordinator, running is false,
\* the transport was asked to disconnect, every registered plugin is
\* disabled and owns no object, and the tracked names, the coordinator's
\* collection and the invalidated objects are empty.
C5_StopClearsEverything ==
    (lastOp.op = "stop" /\ lastOp.running /\ lastOp.exc = "none")
    => /\ ~running
       /\ HasCall("Disconnect")
       /\ ~libConnected
       /\ \A p \in DOMAIN plugins :
             /\ plugins[p].enabled = "False"
             /\ HasPluginCall("on_disable", p)
             /\ plugins[p]._objects = EmptyCollection
       /\ current_names = {}
       /\ objects = EmptyCollection
       /\ invalidated_objects = {}

\* stop() has returned from a connected coordinator that tracked a name and
\* whose plugin owned an object
C5_Witness ==
    /\ lastOp.op = "stop"
    /\ lastOp.running
    /\ lastOp.exc = "none"
    /\ HasCall("on_disconnected_from_unity")
    /\ HasCall("on_destroy")
    /\ scene # EmptyFn

(***************************************************************************)
(* Update batches on their own: a running coordinator with one enabled     *)
(* plugin (the state register_plugin and start() leave in an empty scene), *)
(* the user editing the scene, and Blender running the depsgraph handler.  *)
(***************************************************************************)
BatchObjs == 3

InitBatch ==
    /\ scene = EmptyFn
    /\ libConnected = FALSE
    /\ libSharedMemory = FALSE
    /\ running = TRUE
    /\ plugin_order \in { <<"CustomPlugin">>, <<"MeshPlugin">> }
    /\ plugins = [p \in {plugin_order[1]} |->
                    [enabled |-> "True", _objects |-> EmptyCollection]]
    /\ objects = EmptyCollection
    /\ current_names = {}
    /\ invalidated_objects = {}
    /\ handlers = 1
    /\ timers = NoTimers
    /\ scene_objects = NewSceneObjects
    /\ objs = EmptyFn
    /\ calls = <<>>
    /\ lastOp = Op("init", "", None, 0, "none")

NextBatch ==
    \/ \E n \in HostNames, h \in HostAttrs : HostAdd(n, h)
    \/ \E n \in HostNames : HostRemove(n)
    \/ \E old, new \in HostNames : HostRename(old, new)
    \/ DepsgraphUpdateOp(MachineOf(BatchObjs), MaxUpdates)

SpecBatch == InitBatch /\ [][NextBatch]_vars

(***************************************************************************)
(* Update batches over meshes that may be empty: the user adds and removes *)
(* objects without parent, and empties and refills the meshes between the  *)
(* batches.                                                                *)
(***************************************************************************)
NextFlush ==
    \/ \E n \in HostNames, h \in HostAttrs :
          /\ h.parent = None
          /\ HostAdd(n, h)
    \/ \E n \in HostNames : HostRemove(n)
    \/ \E failing \in SUBSET MeshNames :
          DepsgraphUpdateOp([MachineOf(BatchObjs) EXCEPT !.failing = failing],
                            MaxUpdates)

SpecFlush == InitBatch /\ [][NextFlush]_vars

(***************************************************************************)
(* Properties of the update batch                                          *)
(***************************************************************************)
\* the positions of the interop call c in a log
CallsOf(cs, c) == { i \in 1..Len(cs) : cs[i].call = c }

\* "a tracked object" of on_depsgraph_update: find_by_bpy_name finds it
Tracked(n) == FindByBpyName(objects, n) # 0

GeometryEvent(n) ==
    [name |-> n, is_updated_transform |-> FALSE, is_updated_geometry |-> TRUE]

\* a tracked object that a completed sync has recorded and that is valid
Synced(n) ==
    /\ Tracked(n)
    /\ n \in current_names
    /\ objs[FindByBpyName(objects, n)].valid

\* two synced objects of the scene, x before y in depsgraph.updates
TrackedPairs ==
    { p \in (DOMAIN scene) \X (DOMAIN scene) :
        /\ NameRank(p[1]) < NameRank(p[2])
        /\ Synced(p[1]) /\ Synced(p[2]) }

\* C6: in one batch, geometry events on two synced objects that share a
\* mesh without modifiers give exactly one mesh-marshaling call, for the
\* shared mesh identity; geometry events on two synced objects that both
\* carry modifiers give exactly two calls, with two distinct identities.
C6_InstancingDedup ==
    [][ \A p \in TrackedPairs :
          (/\ lastOp'.op = "on_depsgraph_update"
           /\ lastOp'.updates = <<GeometryEvent(p[1]), GeometryEvent(p[2])>>)
          => LET pushes == CallsOf(calls', "CopyMeshDataNative")
             IN  /\ (/\ ~scene[p[1]].mods /\ ~scene[p[2]].mods
                     /\ scene[p[1]].data = scene[p[2]].data)
                    => /\ Cardinality(pushes) = 1
                       /\ \A i \in pushes : calls'[i].arg = scene[p[1]].data
                 /\ (scene[p[1]].mods /\ scene[p[2]].mods)
                    => /\ Cardinality(pushes) = 2
                       /\ \A i, j \in pushes :
                             i # j => calls'[i].arg # calls'[j].arg ]_vars

\* C7: no batch makes the mesh-marshaling call twice for one mesh identity,
\* whatever additions and geometry events it contains.
C7_OnePushPerMesh ==
    lastOp.op = "on_depsgraph_update"
    => \A i, j \in CallsOf(calls, "CopyMeshDataNative") :
          calls[i].arg = calls[j].arg => i = j

\* C8: the batch that adds an object without modifiers, whose mesh a synced
\* object without modifiers already uses, makes exactly one
\* add-to-scene call and no mesh-marshaling call.
C8_SharedMeshAddNoPush ==
    [][ \A x, y \in DOMAIN scene :
          (/\ lastOp'.op = "on_depsgraph_update"
           /\ lastOp'.updates = <<>>
           /\ x # y
           /\ Synced(x)
           /\ ~Tracked(y) /\ y \notin current_names
           /\ \A n \in (DOMAIN scene) \ {y} : Synced(n)
           /\ \A n \in current_names : n \in DOMAIN scene
           /\ ~scene[x].mods /\ ~scene[y].mods
           /\ scene[x].data = scene[y].data)
          => /\ Cardinality(CallsOf(calls', "AddObjectToScene")) = 1
             /\ \A i \in CallsOf(calls', "AddObjectToScene") : calls'[i].arg = y
             /\ CallsOf(calls', "CopyMeshDataNative") = {} ]_vars

\* C9: the batch after the rename of an object with tracked children makes
\* the add-to-scene call for the new name and, after it, a transform push
\* for every such child, with no update for the children.
C9_RenameRepushesChildren ==
    [][ (/\ lastOp.op = "rename"
         /\ lastOp'.op = "on_depsgraph_update"
         /\ lastOp'.updates = <<>>
         /\ \E ch \in Children(lastOp.name) : Tracked(ch))
        => \E i \in CallsOf(calls', "AddObjectToScene") :
              /\ calls'[i].arg = lastOp.name
              /\ \A ch \in Children(lastOp.name) :
                    Tracked(ch)
                    => \E j \in CallsOf(calls', "SetObjectTransform") :
                          /\ j > i
                          /\ calls'[j].id = FindByBpyName(objects, ch) ]_vars

(***************************************************************************)
(* Properties of object destruction                                        *)
(***************************************************************************)
\* C10: unregistering a plugin of a running coordinator destroys the
\* objects of that plugin and no other, and no object's on_destroy fires
\* twice, in one operation or over several.
C10_DestroyOwnedOnce ==
    /\ \A o \in DOMAIN objs : objs[o].destroys <= 1
    /\ \A i, j \in CallsOf(calls, "on_destroy") :
          calls[i].id = calls[j].id => i = j
    /\ (lastOp.op = "unregister_plugin" /\ lastOp.running)
       => /\ \A i \in CallsOf(calls, "on_destroy") :
                objs[calls[i].id].plugin = "gone"
          /\ \A o \in DOMAIN objs : objs[o].plugin = "gone" => ~objs[o].valid

\* the RemoveObjectFromScene calls issued for object o so far, those of the
\* operation that leads to the next state included
RemovesOf(o) ==
    objs[o].removes
    + Cardinality({ i \in CallsOf(calls', "RemoveObjectFromScene") :
                      calls'[i].id = o })

\* C11: over any sequence of destroy() calls, host removals, plugin
\* disables and stops, RemoveObjectFromScene is issued at most once for an
\* object, and exactly once for an object that was added to the scene by
\* the time nothing refers to it any more.
C11_RemoveFromSceneOnce ==
    [][ \A o \in DOMAIN objs :
            /\ RemovesOf(o) <= 1
            /\ (o \notin DOMAIN objs' /\ objs[o].added) => RemovesOf(o) = 1
      ]_vars

(***************************************************************************)
(* Properties of the end of an update batch                                *)
(***************************************************************************)
\* collection c holds object o of heap under its name, and under its
\* host-object name if it has one
Holds(c, o, heap) ==
    /\ Find(c, heap[o].name) = o
    /\ heap[o].bpy_name # None => FindByBpyName(c, heap[o].bpy_name) = o

\* collection c holds object o of heap under neither index
Absent(c, o) ==
    o \notin { c._objects[n] : n \in DOMAIN c._objects }
             \cup { c._objects_by_bpy_name[b] : b \in DOMAIN c._objects_by_bpy_name }

\* the objects that the batch destroys: valid before it, invalid in b
DestroyedIn(b) ==
    { o \in DOMAIN objs : objs[o].valid /\ ~b.objs[o].valid }

\* C12: an object destroyed during an update batch is, right before the
\* last statement of the batch (remove_all_invalid_objects), still in its
\* plugin's collection and in the coordinator's, under its name and its
\* host-object name, and it is in neither once the batch has ended.
C12_DestroyedStaysUntilBatchEnd ==
    [][ lastOp'.op = "on_depsgraph_update" =>
          \A order \in Orders :
             LET b == BeforeRemoveAllInvalid(Machine, order, lastOp'.updates)
             IN  (calls' = OnDepsgraphUpdate(Machine, order, lastOp'.updates).calls)
                 => \A o \in DestroyedIn(b) :
                      /\ Holds(b.objects, o, b.objs)
                      /\ b.objs[o].plugin \in DOMAIN b.plugins
                      /\ Holds(b.plugins[b.objs[o].plugin]._objects, o, b.objs)
                      /\ o \in b.invalidated_objects
                      /\ Absent(objects', o)
                      /\ \A p \in DOMAIN plugins' :
                            Absent(plugins'[p]._objects, o)
      ]_vars

(***************************************************************************)
(* Properties of the plugin registry                                       *)
(***************************************************************************)
\* the callbacks c1, c2, .. made on plugin p, as calls lists them
PluginEvents(p, cs) == [i \in 1..Len(cs) |-> Ev(cs[i], p, None, 0)]

\* C13: register_plugin(P) calls on_registered, then on_enable if and only
\* if the coordinator is running, then on_connected if and only if it is
\* connected, each once and nothing else, and P is registered afterwards.
C13_RegisterChain ==
    [][ lastOp'.op = "register_plugin" =>
          /\ calls' = PluginEvents(lastOp'.plugin,
                          <<"on_registered">>
                          \o (IF running THEN <<"on_enable">> ELSE <<>>)
                          \o (IF running /\ libConnected
                              THEN <<"on_connected">> ELSE <<>>))
          /\ lastOp'.plugin \in DOMAIN plugins'
          /\ lastOp'.exc = "none"
      ]_vars

\* a plugin was registered with a running, connected coordinator
C13_Witness ==
    /\ lastOp.op = "register_plugin"
    /\ lastOp.running
    /\ HasPluginCall("on_enable", lastOp.plugin)
    /\ HasPluginCall("on_connected", lastOp.plugin)

\* the events of calls made on plugin p
EventsOf(cs, p) == SelectSeq(cs, LAMBDA e : e.plugin = p)

C15_UnregisterAll ==
    [][ lastOp'.op = "unregister_all_plugins" =>
          /\ DOMAIN plugins' = {}
          /\ \A p \in DOMAIN plugins :
                EventsOf(calls', p) = PluginEvents(p,
                    (IF running /\ libConnected
                     THEN <<"on_disconnected">> ELSE <<>>)
                    \o (IF running THEN <<"on_disable">> ELSE <<>>)
                    \o <<"on_unregistered">>)
      ]_vars

(***************************************************************************)
(* Properties of instantiate()                                             *)
(***************************************************************************)
\* C16: instantiate() on a plugin that was never enabled or is disabled
\* raises, and then no object exists that did not before: the plugin's
\* collection and the coordinator's are unchanged, no interop call and no
\* on_create is made.
C16_InstantiateDisabledFails ==
    [][ (lastOp'.op = "instantiate"
         /\ plugins[lastOp'.plugin].enabled # "True") =>
          /\ lastOp'.exc # "none"
          /\ plugins' = plugins
          /\ objects' = objects
          /\ objs' = objs
          /\ calls' = <<>>
      ]_vars

\* instantiate() was called on a plugin disabled by stop()
C16_Witness ==
    /\ lastOp.op = "instantiate"
    /\ lastOp.exc = "Exception"
    /\ plugins[lastOp.plugin].enabled = "False"

(***************************************************************************)
(* Properties of the plugin lifecycle                                      *)
(***************************************************************************)
\* C17: in every state an enabled plugin implies a running coordinator;
\* no register, unregister, start or stop enables a plugin of a stopped
\* coordinator or leaves one enabled when stop() has stopped it.
C17_EnabledImpliesRunning ==
    \A p \in DOMAIN plugins : plugins[p].enabled = "True" => running

\* stop() has stopped a coordinator that had an enabled plugin
C17_Witness ==
    /\ lastOp.op = "stop"
    /\ lastOp.running
    /\ ~running
    /\ HasCall("on_disable")

\* the state machine of a plugin: the state a lifecycle callback leads to
LifecycleStep(st, call) ==
    CASE call = "on_registered" /\ st = "unregistered" -> "registered"
      [] call = "on_enable" /\ st \in {"registered", "disabled"} -> "enabled"
      [] call = "on_disable" /\ st = "enabled" -> "disabled"
      [] call = "on_unregistered" /\ st \in {"registered", "disabled"} ->
            "unregistered"
      [] OTHER -> "bad"

RECURSIVE LifecycleRun(_, _)
LifecycleRun(st, evs) ==
    IF evs = <<>> THEN st
    ELSE LifecycleRun(LifecycleStep(st, Head(evs).call), Tail(evs))

\* the state of plugin class p in the registry reg
LifecycleState(reg, p) ==
    IF p \notin DOMAIN reg THEN "unregistered"
    ELSE CASE reg[p].enabled = "unset" -> "registered"
           [] reg[p].enabled = "True" -> "enabled"
           [] OTHER -> "disabled"

LifecycleCalls == {"on_registered", "on_enable", "on_disable", "on_unregistered"}

\* C18: the lifecycle callbacks of every plugin follow
\* unregistered -> registered -> (enabled <-> disabled)* -> unregistered:
\* on_registered comes first and once, on_enable and on_disable alternate
\* starting with on_enable, on_unregistered comes last and only on a plugin
\* that is not enabled.
C18_LifecycleStateMachine ==
    [][ \A p \in PluginClasses :
          LifecycleRun(LifecycleState(plugins, p),
                       SelectSeq(calls', LAMBDA e :
                           e.plugin = p /\ e.call \in LifecycleCalls))
            = LifecycleState(plugins', p)
      ]_vars

\* a file load has stopped the coordinator and disabled a plugin that a
\* start() had enabled
C18_Witness ==
    /\ lastOp.op = "on_load_pre"
    /\ lastOp.running
    /\ \E p \in DOMAIN plugins :
          /\ HasPluginCall("on_disable", p)
          /\ plugins[p].enabled = "False"

(***************************************************************************)
(* Properties of the event fan-out                                         *)
(***************************************************************************)
\* C19: an exception raised by a plugin callback during an update batch is
\* contained: every registered plugin receives on_add_bpy_object for every
\* object that is new in the batch and the on_depsgraph_update
\* notification, and the cleanup at the end of the batch has run.
C19_FanOutContained ==
    [][ lastOp'.op = "on_depsgraph_update" =>
          /\ \A n \in (DOMAIN scene) \ current_names, p \in DOMAIN plugins :
                \E i \in 1..Len(calls') :
                    calls'[i] = Ev("on_add_bpy_object", p, n, 0)
          /\ \A p \in DOMAIN plugins :
                \E i \in 1..Len(calls') :
                    calls'[i] = Ev("on_depsgraph_update", p, None, 0)
          /\ invalidated_objects' = {}
      ]_vars

(***************************************************************************)
(* Properties of the connection pump                                       *)
(***************************************************************************)
\* C20: a tick whose lib.Connect() did not open the shared memory space,
\* whatever it returned, raises nothing: the coordinator stays running,
\* the tick returns the retry interval, and the state it leaves is one in
\* which the next tick calls lib.Connect() again.
C20_ConnectFailureNotFatal ==
    [][ (/\ lastOp'.op = "on_tick"
         /\ \E i \in 1..Len(calls') : calls'[i].call = "Connect"
         /\ ~libSharedMemory') =>
          /\ lastOp'.exc = "none"
          /\ lastOp'.ret = TickRetry
          /\ running'
          /\ ~libConnected'
      ]_vars

(***************************************************************************)
(* The delay of the pump                                                   *)
(***************************************************************************)
\* the transport is connected once the operation has ended
ConnectedAfter == running' /\ libConnected'

\* C21: the delay on_tick returns follows the connection as it is after the
\* tick's poll: the fast interval exactly when the transport is connected
\* then, the retry interval exactly when it is not, and None (no reschedule)
\* exactly when the coordinator is not running
C21_TickDelayFollowsConnection ==
    [][(lastOp'.op = "on_tick" /\ lastOp'.exc = "none") =>
          /\ (lastOp'.ret = TickFast) <=> ConnectedAfter
          /\ (lastOp'.ret = TickRetry) <=> (running' /\ ~libConnected')
          /\ (lastOp'.ret = "None") <=> ~running']_vars

(***************************************************************************)
(* The timers and handlers of a stopped session                            *)
(***************************************************************************)
\* C22: when stop() returns, every timer and handler that start() registered
\* is torn down: no on_tick timer, no texture timer and no scene-update
\* handler is left to fire, and so at most one on_tick timer is ever live
C22_StopTearsDown ==
    [][/\ (lastOp'.op = "stop" /\ lastOp'.exc = "none") =>
             /\ timers'.on_tick = 0
             /\ timers'.check_texture_sync = 0
             /\ handlers' = 0
       /\ timers'.on_tick <= 1]_vars

(***************************************************************************)
(* The diff of the scene against the tracked names                         *)
(***************************************************************************)
\* how many times the callback c was made for the host name n in a log
Notified(cs, c, n) ==
    Cardinality({ i \in CallsOf(cs, c) : cs[i].arg = n })

\* C23: in every update batch each plugin is notified of an added object
\* once for exactly the host names that are in the scene and were not
\* tracked, and of a removed object once for exactly the names that were
\* tracked and are not in the scene; the batch leaves the tracked names
\* equal to the names of the scene
C23_SyncDiff ==
    [][lastOp'.op = "on_depsgraph_update" =>
          /\ \A n \in HostNames :
                /\ Notified(calls', "on_add_bpy_object", n) =
                      (IF n \in (DOMAIN scene) \ current_names
                       THEN Len(plugin_order) ELSE 0)
                /\ Notified(calls', "on_remove_bpy_object", n) =
                      (IF n \in current_names \ DOMAIN scene
                       THEN Len(plugin_order) ELSE 0)
          /\ current_names' = DOMAIN scene]_vars

(***************************************************************************)
(* The transient state of a batch                                          *)
(***************************************************************************)
\* C24: at the end of every update batch the transient state of the batch
\* is empty: the invalidated objects are cleared and current_depsgraph is
\* None again (the geometry updates are a local of the handler and end
\* with it)
C24_TransientStateCleared ==
    [][lastOp'.op = "on_depsgraph_update" =>
          /\ invalidated_objects' = {}
          /\ lastOp'.current_depsgraph = "None"]_vars

(***************************************************************************)
(* Properties of the components                                            *)
(***************************************************************************)
\* the instances of the class c attached to the object n
Attached(so, n, c) ==
    IF n \in DOMAIN so.objects
    THEN { i \in so.objects[n] : so.instances[i].cls = c }
    ELSE {}

SyncCalls(cs, n) ==
    LET IsSync(e) == /\ e.call \in {"AddObjectToScene", "RemoveObjectFromScene"}
                     /\ e.arg = n
    IN  SelectSeq(cs, IsSync)

\* the object n has at least one component
HasComponents(so, n) == n \in DOMAIN so.objects /\ so.objects[n] # {}

C27_RegisterReachesTracked ==
    [][(/\ lastOp'.op = "register_component"
        /\ lastOp'.exc = "none"
        /\ lastOp'.plugin \in DOMAIN scene_objects'.registered) =>
          \A n \in scene_objects.current_names \cap DOMAIN scene :
              (IsAutobind(lastOp'.plugin) \/ lastOp'.plugin \in scene[n].components)
                  => Attached(scene_objects', n, lastOp'.plugin) # {}]_vars

\* the instances of the class c
InstancesOf(so, c) == { i \in DOMAIN so.instances : so.instances[i].cls = c }

\* C28: unregister_component(c) calls on_disable of every instance of c that
\* is enabled and on_destroy of every instance of c, all of them before
\* on_unregistered of c, and leaves no instance of c on any object
C28_UnregisterOrder ==
    [][lastOp'.op = "unregister_component" =>
          LET c == lastOp'.plugin
              At(what, i) == { k \in 1..Len(calls') :
                                  /\ calls'[k].call = what
                                  /\ calls'[k].plugin = c
                                  /\ calls'[k].id = i }
          IN  /\ \A i \in InstancesOf(scene_objects, c) :
                    /\ At("on_destroy", i) # {}
                    /\ scene_objects.instances[i].enabled => At("on_disable", i) # {}
                    /\ \A k \in At("on_disable", i) \cup At("on_destroy", i),
                          u \in At("on_unregistered", 0) : k < u
              /\ At("on_unregistered", 0) # {}
              /\ \A n \in DOMAIN scene_objects'.objects :
                    Attached(scene_objects', n, c) = {}]_vars

\* C29: no handler of the components ends with the exception of a
\* component callback; on_start and on_stop deliver their callback to every
\* component instance, and an update batch ends with the dirty geometry
\* cleared
C29_CallbackErrorsContained ==
    [][/\ lastOp'.exc # "Exception"
       /\ lastOp'.op \in ComponentEvents =>
             \A i \in AllComponents(scene_objects') :
                 \E k \in 1..Len(calls') : /\ calls'[k].call = lastOp'.op
                                            /\ calls'[k].id = i
       /\ lastOp'.op = "components_on_depsgraph_update" =>
             scene_objects'.dirty_geometry = <<>>]_vars

\* the batch that led to the next state, run from the current state in the
\* given order of scene.objects with the meshes of the set failing empty
BatchWith(failing, order) ==
    OnDepsgraphUpdate([MachineOf(BatchObjs) EXCEPT !.failing = failing],
                      order, lastOp'.updates)

\* C30: a batch in which mesh evaluations fail is the batch in which they
\* succeed with the pushes of the failing objects left out (an error is
\* logged in their place): it raises what that batch raises and nothing
\* else, makes the same interop calls and callbacks otherwise, the pushes
\* of the other dirty meshes included, pushes no mesh of a failing object,
\* and leaves the same state; and a completed batch evaluates every dirty
\* mesh identity, whatever failed in the batches before it
C30_EvaluationFailureContained ==
    [][lastOp'.op = "on_depsgraph_update" =>
          \A order \in Orders :
              \A b \in {BatchWith(lastOp'.failing, order)} :
                  calls' = b.calls =>
                    \A g \in {BatchWith({}, order)} :
                        /\ b.exc = g.exc
                        /\ Len(b.calls) = Len(g.calls)
                        /\ \A k \in 1..Len(g.calls) :
                              b.calls[k] =
                                  IF /\ g.calls[k].call = "CopyMeshDataNative"
                                     /\ EvaluationFails(b, g.calls[k].id)
                                  THEN [g.calls[k] EXCEPT !.call = "error"]
                                  ELSE g.calls[k]
                        /\ \A k \in CallsOf(b.calls, "CopyMeshDataNative") :
                              ~EvaluationFails(b, b.calls[k].id)
                        /\ [b EXCEPT !.calls = <<>>, !.failing = {}]
                              = [g EXCEPT !.calls = <<>>]
                        /\ b.exc = "none" =>
                              \A x \in 1..Len(b.geometry_updates) :
                                  \E k \in 1..Len(b.calls) :
                                      /\ b.calls[k].call \in {"CopyMeshDataNative", "error"}
                                      /\ b.calls[k].arg = b.geometry_updates[x].uid
                                      /\ b.calls[k].id = b.geometry_updates[x].obj]_vars

\* a batch with geometry events on two objects has completed: the mesh of
\* one was empty and logged, the mesh of the other was pushed after it
C30_Witness ==
    /\ lastOp.op = "on_depsgraph_update"
    /\ lastOp.exc = "none"
    /\ Len(lastOp.updates) = 2
    /\ \A k \in 1..2 : lastOp.updates[k].is_updated_geometry
    /\ \E i \in CallsOf(calls, "error"), j \in CallsOf(calls, "CopyMeshDataNative") :
          /\ i < j
          /\ \A k \in i..j : calls[k].call \in {"error", "CopyMeshDataNative"}

(***************************************************************************)
(* Properties of the mesh identity                                         *)
(***************************************************************************)
\* two valid objects with two distinct host objects of the scene
HostedPairs ==
    { p \in (DOMAIN objs) \X (DOMAIN objs) :
        /\ p[1] # p[2]
        /\ \A k \in 1..2 : /\ objs[p[k]].valid
                           /\ objs[p[k]].bpy_name \in DOMAIN scene
        /\ objs[p[1]].bpy_name # objs[p[2]].bpy_name }

\* C31: two objects whose host objects use one mesh without modifiers have
\* the same mesh identity, and two objects of which at least one has
\* modifiers have different mesh identities
C31_MeshIdentity ==
    \A p \in HostedPairs :
        LET x == scene[objs[p[1]].bpy_name]
            y == scene[objs[p[2]].bpy_name]
            heap == [objs |-> objs]
        IN  /\ (~x.mods /\ ~y.mods /\ x.data = y.data)
                => MeshUid(heap, p[1]) = MeshUid(heap, p[2])
            /\ (x.mods \/ y.mods)
                => MeshUid(heap, p[1]) # MeshUid(heap, p[2])

(***************************************************************************)
(* Properties of the component properties                                  *)
(***************************************************************************)
\* the value that update_property was called with in the operation that
\* led to the next state
Pushed == calls'[1].arg

\* the type tag a value should be sent under
TagOf(value) ==
    CASE value.type = "bool" -> Tag.BOOLEAN
      [] value.type = "int" -> Tag.INTEGER
      [] value.type = "float" -> Tag.FLOAT
      [] value.type = "str" -> Tag.STRING
      [] value.type = "enum" -> Tag.ENUM
      [] value.type = "Color" -> Tag.COLOR
      [] value.type = "bpy_prop_array" /\ Len(value.v) \in 2..4 -> 5 + Len(value.v)
      [] OTHER -> 0

\* what the receiver reads from the struct, by its tag
ReadBack(prop) ==
    CASE prop.type = Tag.BOOLEAN -> prop.intValue # 0
      [] prop.type = Tag.INTEGER -> prop.intValue
      [] prop.type = Tag.FLOAT -> prop.vectorValue[1]
      [] prop.type \in {Tag.STRING, Tag.ENUM} -> prop.stringValue
      [] prop.type = Tag.COLOR -> SubSeq(prop.vectorValue, 1, 3)
      [] prop.type \in {Tag.FLOAT_VECTOR2, Tag.FLOAT_VECTOR3, Tag.FLOAT_VECTOR4} ->
            SubSeq(prop.vectorValue, 1, prop.type - 5)
      [] OTHER -> None

\* C32: update_property with a value that has no interop representation
\* raises TypeError, sends no property update and leaves the component's
\* property table as it was
C32_TypeConversionContained ==
    [][(lastOp'.op = "update_property" /\ TagOf(Pushed) = 0) =>
          /\ lastOp'.exc = "TypeError"
          /\ CallsOf(calls', "UpdateComponentProperty") = {}
          /\ scene_objects' = scene_objects]_vars

\* a vector of dimension 5 was refused for a property that holds a value
C32_Witness ==
    /\ lastOp.op = "update_property"
    /\ lastOp.exc = "TypeError"
    /\ calls[1].arg.type = "bpy_prop_array"
    /\ lastOp.name \in DOMAIN scene_objects.instances[lastOp.id].properties

\* a is b within the precision of a float32
WithinFloat32(a, b) ==
    IF b <= 16777216 /\ b >= -16777216 THEN a = b ELSE a - b \in -1..1

\* C33: update_property with a value of a supported type stores and sends a
\* struct that carries the tag of that type and reads back as the value
\* (a float within float32 precision), whatever the slot held before
C33_PropertyRoundTrip ==
    [][(lastOp'.op = "update_property" /\ TagOf(Pushed) # 0) =>
          /\ lastOp'.exc = "none"
          /\ \A k \in CallsOf(calls', "UpdateComponentProperty") :
                calls'[k].arg
                    = scene_objects'.instances[lastOp'.id].properties[lastOp'.name]
          /\ CallsOf(calls', "UpdateComponentProperty") # {}
          /\ LET prop == scene_objects'.instances[lastOp'.id].properties[lastOp'.name]
             IN  /\ prop.type = TagOf(Pushed)
                 /\ IF Pushed.type = "float"
                    THEN WithinFloat32(ReadBack(prop), Pushed.v)
                    ELSE ReadBack(prop) = Pushed.v]_vars

(***************************************************************************)
(* C34  add_object(obj) makes its interop calls in one order: first        *)
(* AddObjectToScene, then the transform of every child of the host object  *)
(* that is tracked already, then the properties of the object, then its    *)
(* geometry; instantiate() calls on_create after all of them.  In the      *)
(* calls of every operation, each AddObjectToScene is followed by exactly  *)
(* that run of calls.                                                      *)
(***************************************************************************)
\* the calls that follow the i-th one are SetObjectTransform calls, k of them
ChildPushes(cs, i, k) ==
    /\ i + k <= Len(cs)
    /\ \A j \in (i + 1)..(i + k) :
          /\ cs[j].call = "SetObjectTransform"
          /\ cs[j].id \in DOMAIN objs' /\ cs[i].id \in DOMAIN objs'
          /\ objs'[cs[j].id].bpy_name \in DOMAIN scene
          /\ scene[objs'[cs[j].id].bpy_name].parent = objs'[cs[i].id].bpy_name
    /\ \A j1, j2 \in (i + 1)..(i + k) : cs[j1].id = cs[j2].id => j1 = j2

\* the children of the host object of o that were tracked when the
\* operation began
TrackedChildren(o) ==
    { n \in DOMAIN scene : /\ scene[n].parent = objs'[o].bpy_name
                           /\ FindByBpyName(objects, n) # 0 }

\* the run of calls add_object and instantiate make from the i-th call on
AddRun(cs, i) ==
    LET o == cs[i].id
    IN  IF o \notin DOMAIN objs' THEN FALSE
        ELSE IF objs'[o].bpy_name = None
        THEN i + 1 <= Len(cs) /\ cs[i + 1] = Ev("on_create", "", cs[i].arg, o)
        ELSE \E k \in 0..MaxHosts :
                /\ ChildPushes(cs, i, k)
                /\ \A n \in TrackedChildren(o) :
                      \E j \in (i + 1)..(i + k) : objs'[cs[j].id].bpy_name = n
                /\ i + k + 3 <= Len(cs)
                /\ cs[i + k + 1] = Ev("UpdateObjectProperties", "", cs[i].arg, o)
                /\ cs[i + k + 2].call \in {"CopyMeshDataNative", "error"}
                /\ cs[i + k + 2].id = o
                /\ cs[i + k + 3] = Ev("on_create", "", cs[i].arg, o)

Disabling ==
    IF lastOp'.op = "unregister_plugin"
    THEN {lastOp'.plugin} \cap DOMAIN plugins
    ELSE DOMAIN plugins

C35_DisconnectedBeforeDisable ==
    [][ (/\ lastOp'.op \in {"stop", "on_load_pre", "unregister_plugin"}
         /\ running /\ libConnected) =>
          \A p \in Disabling :
              \E i \in 1..Len(calls') :
                  /\ calls'[i].plugin = p
                  /\ calls'[i].call \in DisconnectedCalls
                  /\ \A j \in 1..Len(calls') :
                        (\/ calls'[j] = Ev("on_disable", p, None, 0)
                         \/ /\ calls'[j].call = "RemoveObjectFromScene"
                            /\ calls'[j].id \in DOMAIN objs
                            /\ objs[calls'[j].id].plugin = p)
                        => i < j ]_vars

(***************************************************************************)
(* C36  A message whose header byte is RPC_COMPONENT_MESSAGE_ID (255) is   *)
(* valid, is read as a component message, and on_message dispatches it to  *)
(* the component of that name on the object it targets: the handler raises *)
(* nothing and the dispatch of that instance is among its calls.           *)
(***************************************************************************)
C36_ComponentMessageDispatched ==
    [][ (/\ lastOp'.op = "on_message"
         /\ lastOp'.id = RPC_COMPONENT_MESSAGE_ID
         /\ lastOp'.name \in DOMAIN scene_objects.objects
         /\ \E i \in scene_objects.objects[lastOp'.name] :
                scene_objects.instances[i].cls = lastOp'.plugin) =>
          \A message \in {InteropMessage(lastOp'.id, lastOp'.plugin,
                                         [target |-> lastOp'.name, id |-> "id"])} :
              /\ ~Invalid(message)
              /\ AsComponentMessage(message) = message.data
              /\ lastOp'.exc = "none"
              /\ \E x \in 1..Len(calls') :
                    /\ calls'[x].call = "_dispatch"
                    /\ calls'[x].plugin = lastOp'.plugin
                    /\ calls'[x].id \in scene_objects.objects[lastOp'.name]
      ]_vars

(***************************************************************************)
(* C37  Between the handlers' runs the collection of the coordinator is    *)
(* the disjoint union of the collections of the registered plugins: the    *)
(* two hold the same objects, no object is in the collections of two       *)
(* plugins, and every object of the coordinator's collection is owned by a *)
(* registered plugin and is in the collection of its owner.                *)
(***************************************************************************)
C37_CollectionsPartition ==
    /\ CollValues(objects)
          = UNION { CollValues(plugins[p]._objects) : p \in DOMAIN plugins }
    /\ \A p, q \in DOMAIN plugins :
          p # q => CollValues(plugins[p]._objects)
                      \cap CollValues(plugins[q]._objects) = {}
    /\ \A o \in CollValues(objects) :
          /\ objs[o].plugin \in DOMAIN plugins
          /\ o \in CollValues(plugins[objs[o].plugin]._objects)

(***************************************************************************)
(* C38  For every plugin the connected and the disconnected notifications  *)
(* alternate, the first one being connected, whatever the order of ticks,  *)
(* connection gains and losses, register, unregister, start and stop; and  *)
(* a tick whose poll loses the connection gives every registered plugin    *)
(* exactly one disconnected notification.                                  *)
(***************************************************************************)
\* the disconnected notifications plugin p received in the calls cs
DisconnectedOf(cs, p) ==
    { i \in 1..Len(cs) : cs[i].plugin = p /\ cs[i].call \in DisconnectedCalls }

C38_NotificationsAlternate ==
    [][ /\ \A p \in PluginClasses : lastOp'.notified[p] # "bad"
        /\ (/\ lastOp'.op = "on_tick"
            /\ running /\ libConnected /\ ~libConnected') =>
              \A p \in DOMAIN plugins :
                  Cardinality(DisconnectedOf(calls', p)) = 1 ]_vars

(***************************************************************************)
(* C39  The connect retry is live: while the coordinator runs, ticks keep  *)
(* firing and the transport accepts in the end, the coordinator becomes    *)
(* connected and every registered plugin has received the connected        *)
(* notification.                                                           *)
(***************************************************************************)
C39_ConnectRetryLive ==
    running ~> (/\ running /\ libConnected
                /\ \A p \in DOMAIN plugins : lastOp.notified[p] = "connected")

(***************************************************************************)
(* C40  An object created without host object is a channel for data and    *)
(* messages only: over its life the library is told of it by one           *)
(* AddObjectToScene and one RemoveObjectFromScene and by nothing else; no  *)
(* operation and no update batch pushes a transform, properties or         *)
(* geometry for it.                                                        *)
(***************************************************************************)
\* the objects without host object that exist before the operation or that
\* it leaves
Channels ==
    { o \in (DOMAIN objs) \cup (DOMAIN objs') :
        IF o \in DOMAIN objs THEN objs[o].bpy_name = None
        ELSE objs'[o].bpy_name = None }

\* the calls of the operation that concern object o and are no callback
InteropCallsFor(o) ==
    { i \in 1..Len(calls') :
        calls'[i].id = o /\ calls'[i].call \notin {"on_create", "on_destroy"} }

\* the pushes of the operation are none for a channel
C40_ChannelFrame ==
    \A o \in Channels : \A i \in InteropCallsFor(o) :
        calls'[i].call \in {"AddObjectToScene", "RemoveObjectFromScene"}

C40_ChannelOnlyAddAndRemove ==
    [][ /\ C40_ChannelFrame
        /\ \A o \in Channels :
              /\ Cardinality({ i \in InteropCallsFor(o) :
                                 calls'[i].call = "AddObjectToScene" })
                    <= (IF o \in DOMAIN objs /\ objs[o].added THEN 0 ELSE 1)
              /\ o \in DOMAIN objs => RemovesOf(o) <= 1 ]_vars

====
